---- MODULE Spec2Model ----
(***************************************************************************)
(* Model of the statutory-text addressing engine of title17usc:            *)
(*   - the hash routers (parseHash / viewToHash) of the multi-title app    *)
(*     (src/uscode/src/App.tsx) and of the single-title app                *)
(*     (src/src/App.tsx);                                                  *)
(*   - the structural path builder buildParaMetaMap (src/src/App.tsx);     *)
(*   - the subsection-local definition extractor parseSec115eDefs.         *)
(*                                                                         *)
(* Strings are sequences of one-character strings.  In block markup a tag  *)
(* ("<span class=\"num\">", "</span>", ...) is one element of the sequence *)
(* and everything outside a tag is spelled character by character, so the  *)
(* regular expressions of the source are matched element by element.       *)
(***************************************************************************)
EXTENDS Integers, Sequences, FiniteSets, TLC

VARIABLES
    router,      \* codec: which app's router runs ("multi" | "single" | "none")
    target,      \* codec: the ViewState handed to viewToHash
    addr,        \* codec: the address string (window.location.hash)
    decoded,     \* codec: the ViewState returned by parseHash
    cpc,         \* codec: position ("view" | "addr" | "decoded" | "idle")
    content,     \* section.content: sequence of ContentBlock
    sectionNum,  \* second argument of buildParaMetaMap
    idx,         \* index (1-based) of the next block the loop visits
    stack,       \* buildParaMetaMap: stack of {indent, numText}
    pmap,        \* buildParaMetaMap: map block index -> {path, id}
    inE,         \* parseSec115eDefs: the inE flag
    defs,        \* parseSec115eDefs: the defs array
    lpc,         \* loops: position ("para" | "defs" | "done" | "idle")
    doc,         \* section 101: the paragraphs of the definitions markup
    dpos,        \* parseSec101Defs: pRegex.lastIndex (1-based)
    dres,        \* parseSec101Defs: the result array
    dslug,       \* getFullDefHtml: the slug asked for
    dout,        \* getFullDefHtml: the markup returned
    dpc,         \* section 101: position ("parse" | "parsed" | "done" | "idle")
    sterm,       \* slug: the term
    sslug,       \* slug: the slug of the term
    sagain,      \* slug: the slug of the slug
    spc,         \* slug: position ("term" | "slug" | "again" | "idle")
    a101,        \* annotator: defs101, the parsed section 101 entries
    a115,        \* annotator: sec115eDefs, the parsed section 115(e) records
    aterms,      \* buildTermAnnotator: the filtered and sorted terms
    ahtml,       \* annotate: the markup handed to the annotator
    aout,        \* annotate: the markup returned, as pieces
    apc,         \* annotator: position ("merge" | "built" | "annotated" | "idle")
    click,       \* click: the event (inside an anchor or not, the anchor's href)
    prevented,   \* click: e.preventDefault() was called
    navs,        \* click: the calls of onNavigate
    opens,       \* click: the calls of window.open
    kpc,         \* click: position ("click" | "handled" | "idle")
    vview,       \* loading: the view state of App
    vsections,   \* loading: the state of the hook ("null" | "error" | a title: its map)
    vsubs,       \* loading: titles whose pending promise has a reaction of the hook
    titleCache,  \* loading: the keys of titleCache (sectionsCache: the key "17")
    titlePromises, \* loading: titlePromises (sectionsPromise), per key
    requests,    \* loading: the network requests issued, per key
    ptimer,      \* loading: the title of the armed prefetch timer, or "none"
    notes,       \* NotesPanel: the notes of the section
    nidx,        \* NotesPanel: index (1-based) of the next note the loop visits
    pendingHeader, \* NotesPanel: the pendingHeader variable
    rendered,    \* NotesPanel: the rendered array
    npc,         \* NotesPanel: position ("loop" | "done" | "idle")
    hview,       \* navigation: the view state of the single-title App
    hhash,       \* navigation: window.location.hash
    hevents,     \* navigation: hashchange events fired and not yet handled
    hasked,      \* navigation: the argument of the last call of navigate
    hpc,         \* navigation: position ("run" | "idle")
    kdefs101,    \* content click: defs101 of the SectionView
    kdefs115,    \* content click: sec115eDefs of the SectionView
    popup        \* content click: activeDefPopup (Null or Some(popup))

vars == <<router, target, addr, decoded, cpc,
          content, sectionNum, idx, stack, pmap, inE, defs, lpc,
          doc, dpos, dres, dslug, dout, dpc,
          sterm, sslug, sagain, spc,
          a101, a115, aterms, ahtml, aout, apc,
          click, prevented, navs, opens, kpc,
          vview, vsections, vsubs, titleCache, titlePromises, requests, ptimer,
          notes, nidx, pendingHeader, rendered, npc,
          hview, hhash, hevents, hasked, hpc,
          kdefs101, kdefs115, popup>>

codecVars == <<router, target, addr, decoded, cpc>>
loopVars  == <<content, sectionNum, idx, stack, pmap, inE, defs, lpc>>
sec101Vars == <<doc, dpos, dres, dslug, dout, dpc>>

\* the variables of the specifications added after the codec and the loops
slugVars == <<sterm, sslug, sagain, spc>>
annVars == <<a101, a115, aterms, ahtml, aout, apc>>
clickVars == <<click, prevented, navs, opens, kpc>>
viewVars == <<vview, vsections, vsubs, titleCache, titlePromises, requests, ptimer>>
noteVars == <<notes, nidx, pendingHeader, rendered, npc>>
navVars == <<hview, hhash, hevents, hasked, hpc>>
popupVars == <<kdefs101, kdefs115, popup>>
lateVars == <<noteVars, navVars, popupVars>>
extVars == <<sec101Vars, slugVars, annVars, clickVars, viewVars, lateVars>>

\* for each of these specifications, the variables of the others
besideSec101Vars == <<slugVars, annVars, clickVars, viewVars, lateVars>>
besideSlugVars == <<sec101Vars, annVars, clickVars, viewVars, lateVars>>
besideAnnVars == <<sec101Vars, slugVars, clickVars, viewVars, lateVars>>
besideClickVars == <<sec101Vars, slugVars, annVars, viewVars, lateVars>>
besideViewVars == <<sec101Vars, slugVars, annVars, clickVars, lateVars>>
besideNoteVars == <<sec101Vars, slugVars, annVars, clickVars, viewVars,
                    navVars, popupVars>>
besideNavVars == <<sec101Vars, slugVars, annVars, clickVars, viewVars,
                   noteVars, popupVars>>
besideContentClickVars == <<sec101Vars, slugVars, annVars, viewVars,
                            noteVars, navVars>>

Sec101Idle ==
    /\ doc = <<>>
    /\ dpos = 0
    /\ dres = <<>>
    /\ dslug = <<>>
    /\ dout = <<>>
    /\ dpc = "idle"

SlugIdle ==
    /\ sterm = <<>>
    /\ sslug = <<>>
    /\ sagain = <<>>
    /\ spc = "idle"

AnnIdle ==
    /\ a101 = <<>>
    /\ a115 = <<>>
    /\ aterms = <<>>
    /\ ahtml = <<>>
    /\ aout = <<>>
    /\ apc = "idle"

ClickIdle ==
    /\ click = [inAnchor |-> FALSE, href |-> <<>>]
    /\ prevented = FALSE
    /\ navs = <<>>
    /\ opens = <<>>
    /\ kpc = "idle"

ViewIdle ==
    /\ vview = [type |-> "home"]
    /\ vsections = "null"
    /\ vsubs = {}
    /\ titleCache = {}
    /\ titlePromises = <<>>
    /\ requests = <<>>
    /\ ptimer = "none"

NoteIdle ==
    /\ notes = <<>>
    /\ nidx = 0
    /\ pendingHeader = ""
    /\ rendered = <<>>
    /\ npc = "idle"

NavIdle ==
    /\ hview = [type |-> "home"]
    /\ hhash = <<>>
    /\ hevents = 0
    /\ hasked = [type |-> "home"]
    /\ hpc = "idle"

PopupIdle ==
    /\ kdefs101 = <<>>
    /\ kdefs115 = <<>>
    /\ popup = <<>>

LateIdle == NoteIdle /\ NavIdle /\ PopupIdle

ExtIdle ==
    /\ Sec101Idle
    /\ SlugIdle
    /\ AnnIdle
    /\ ClickIdle
    /\ ViewIdle
    /\ LateIdle

BesideSec101Idle == SlugIdle /\ AnnIdle /\ ClickIdle /\ ViewIdle /\ LateIdle
BesideSlugIdle == Sec101Idle /\ AnnIdle /\ ClickIdle /\ ViewIdle /\ LateIdle
BesideAnnIdle == Sec101Idle /\ SlugIdle /\ ClickIdle /\ ViewIdle /\ LateIdle
BesideClickIdle == Sec101Idle /\ SlugIdle /\ AnnIdle /\ ViewIdle /\ LateIdle
BesideViewIdle == Sec101Idle /\ SlugIdle /\ AnnIdle /\ ClickIdle /\ LateIdle
BesideNoteIdle ==
    Sec101Idle /\ SlugIdle /\ AnnIdle /\ ClickIdle /\ ViewIdle /\ NavIdle /\ PopupIdle
BesideNavIdle ==
    Sec101Idle /\ SlugIdle /\ AnnIdle /\ ClickIdle /\ ViewIdle /\ NoteIdle /\ PopupIdle
BesideContentClickIdle ==
    Sec101Idle /\ SlugIdle /\ AnnIdle /\ ViewIdle /\ NoteIdle /\ NavIdle

-----------------------------------------------------------------------------
(* Character classes and string helpers                                    *)

Digits == {"0", "1", "2", "3", "4", "5", "6", "7", "8", "9"}

UpperLetters == {"A", "B", "C", "D", "E", "F", "G", "H", "I", "J", "K", "L", "M",
                 "N", "O", "P", "Q", "R", "S", "T", "U", "V", "W", "X", "Y", "Z"}

LowerLetters == {"a", "b", "c", "d", "e", "f", "g", "h", "i", "j", "k", "l", "m",
                 "n", "o", "p", "q", "r", "s", "t", "u", "v", "w", "x", "y", "z"}

\* characters the regex dot does not match
LineTerminators == {"\n", "\r"}

\* s.slice(i - 1): the suffix of s that starts at 1-based position i
Slice(s, i) == SubSeq(s, i, Len(s))

\* s.startsWith(lit, i - 1)
StartsWithAt(s, i, lit) ==
    /\ i + Len(lit) - 1 <= Len(s)
    /\ SubSeq(s, i, i + Len(lit) - 1) = lit

\* s.indexOf(c) as a 1-based position, 0 when c does not occur
IndexOf(s, c) ==
    IF \E p \in 1..Len(s) : s[p] = c
    THEN CHOOSE p \in 1..Len(s) : s[p] = c /\ \A q \in 1..(p - 1) : s[q] # c
    ELSE 0

\* end (exclusive) of the longest run of characters of class cls from i
RECURSIVE RunEnd(_, _, _)
RunEnd(s, i, cls) ==
    IF i <= Len(s) /\ s[i] \in cls THEN RunEnd(s, i + 1, cls) ELSE i

\* /(\d+[A-Z]*)/ anchored at position i: the position after the match, or 0.
\* Every use in parseHash is followed by '/', '(' or the end of the input,
\* none of which is a digit or an upper-case letter, so only the longest
\* run can lead to a match.
NumEnd(s, i) ==
    LET d == RunEnd(s, i, Digits)
    IN  IF d = i THEN 0 ELSE RunEnd(s, d, UpperLetters)

\* /.+$/ from position i: at least one character, none a line terminator
DotPlusToEnd(s, i) ==
    /\ i <= Len(s)
    /\ \A p \in i..Len(s) : s[p] \notin LineTerminators

\* hash.replace(/^#\/?/, '')
StripHash(hash) ==
    IF StartsWithAt(hash, 1, <<"#", "/">>) THEN Slice(hash, 3)
    ELSE IF StartsWithAt(hash, 1, <<"#">>) THEN Slice(hash, 2)
    ELSE hash

Home == [type |-> "home"]

DefPrefix == <<"d", "e", "f", "/">>

-----------------------------------------------------------------------------
(* Multi-title router, src/uscode/src/App.tsx                              *)

\* the common prefix /^t(\d+[A-Z]*)\/s(\d+[A-Z]*)/ : <<end of title, end of section>>
\* as exclusive positions, or <<0, 0>>
MultiSectionPrefix(h) ==
    IF ~StartsWithAt(h, 1, <<"t">>) THEN <<0, 0>>
    ELSE LET te == NumEnd(h, 2)
         IN  IF te = 0 \/ ~StartsWithAt(h, te, <<"/", "s">>) THEN <<0, 0>>
             ELSE LET se == NumEnd(h, te + 2)
                  IN  IF se = 0 THEN <<0, 0>> ELSE <<te, se>>

MultiParseHash(hash) ==
    LET h  == StripHash(hash)
        pr == MultiSectionPrefix(h)
        te == pr[1]
        se == pr[2]
        tn == SubSeq(h, 2, te - 1)
        sn == SubSeq(h, te + 2, se - 1)
        titleEnd == IF StartsWithAt(h, 1, <<"t">>) THEN NumEnd(h, 2) ELSE 0
    IN  IF h = <<>> THEN Home
        \* defMatch: /^t(\d+[A-Z]*)\/s(\d+[A-Z]*)\/def\/(.+)$/
        ELSE IF /\ se # 0
                /\ StartsWithAt(h, se, <<"/">> \o DefPrefix)
                /\ DotPlusToEnd(h, se + 5)
        THEN [type |-> "section", titleNum |-> tn, sectionNum |-> sn,
              paragraphAnchor |-> DefPrefix \o Slice(h, se + 5)]
        \* secParenMatch: /^t(\d+[A-Z]*)\/s(\d+[A-Z]*)(\(.+)$/
        ELSE IF /\ se # 0
                /\ StartsWithAt(h, se, <<"(">>)
                /\ DotPlusToEnd(h, se + 1)
        THEN [type |-> "section", titleNum |-> tn, sectionNum |-> sn,
              paragraphAnchor |-> Slice(h, se)]
        \* secMatch: /^t(\d+[A-Z]*)\/s(\d+[A-Z]*)$/
        ELSE IF se # 0 /\ se = Len(h) + 1
        THEN [type |-> "section", titleNum |-> tn, sectionNum |-> sn]
        \* titleMatch: /^t(\d+[A-Z]*)$/
        ELSE IF titleEnd # 0 /\ titleEnd = Len(h) + 1
        THEN [type |-> "title", titleNum |-> SubSeq(h, 2, titleEnd - 1)]
        ELSE Home

\* view.paragraphAnchor is truthy: present and not the empty string
HasAnchor(view) ==
    /\ "paragraphAnchor" \in DOMAIN view
    /\ view.paragraphAnchor # <<>>

MultiViewToHash(view) ==
    IF view.type = "home" THEN <<"#">>
    ELSE IF view.type = "title" THEN <<"#", "t">> \o view.titleNum
    ELSE LET anchor ==
                 IF HasAnchor(view)
                 THEN IF StartsWithAt(view.paragraphAnchor, 1, DefPrefix)
                      THEN <<"/">> \o view.paragraphAnchor
                      ELSE view.paragraphAnchor
                 ELSE <<>>
         IN  <<"#", "t">> \o view.titleNum \o <<"/", "s">> \o view.sectionNum \o anchor

-----------------------------------------------------------------------------
(* Single-title router, src/src/App.tsx                                    *)

SectionSlash == <<"s", "e", "c", "t", "i", "o", "n", "/">>
ChapterSlash == <<"c", "h", "a", "p", "t", "e", "r", "/">>

SingleParseHash(hash) ==
    LET h    == StripHash(hash)
        rest == Slice(h, Len(SectionSlash) + 1)
        \* defMatch: /^(\d+[A-Z]*)\/def\/(.+)$/
        ne   == NumEnd(rest, 1)
        parenIdx == IndexOf(rest, "(")
    IN  IF h = <<>> THEN Home
        ELSE IF StartsWithAt(h, 1, SectionSlash)
        THEN IF /\ ne # 0
                /\ StartsWithAt(rest, ne, <<"/">> \o DefPrefix)
                /\ DotPlusToEnd(rest, ne + 5)
             THEN [type |-> "section", sectionNum |-> SubSeq(rest, 1, ne - 1),
                   paragraphAnchor |-> DefPrefix \o Slice(rest, ne + 5)]
             \* rest.indexOf('(') > 0 in 0-based positions
             ELSE IF parenIdx > 1
             THEN [type |-> "section", sectionNum |-> SubSeq(rest, 1, parenIdx - 1),
                   paragraphAnchor |-> Slice(rest, parenIdx)]
             ELSE [type |-> "section", sectionNum |-> rest]
        ELSE IF StartsWithAt(h, 1, ChapterSlash)
        THEN [type |-> "chapter", chapterNum |-> Slice(h, Len(ChapterSlash) + 1)]
        ELSE Home

SingleViewToHash(view) ==
    IF view.type = "section" THEN <<"#">> \o SectionSlash \o view.sectionNum
    ELSE IF view.type = "chapter" THEN <<"#">> \o ChapterSlash \o view.chapterNum
    ELSE <<"#">>

-----------------------------------------------------------------------------
(* Inputs of the codec specification                                       *)

\* number of designator tokens in a paragraph path
MaxDesignators == 2

\* title numbers: the titles of the Code, one with an upper-case suffix
TitleNums == { <<"1", "7">>, <<"1", "5">>, <<"5", "A">> }

\* section numbers as the data files carry them: 17 USC 106, 17 USC 106A,
\* 15 USC 78a
SectionNums == { <<"1", "0", "6">>, <<"1", "0", "6", "A">>, <<"7", "8", "a">> }

ChapterNums == { <<"1">>, <<"1", "2">> }

Designators == { <<"(", "a", ")">>, <<"(", "1", ")">> }

RECURSIVE Flatten(_)
Flatten(ss) == IF ss = <<>> THEN <<>> ELSE Head(ss) \o Flatten(Tail(ss))

\* structural paths of 1..MaxDesignators designators, e.g. "(a)(1)"
ParenPaths ==
    UNION { { Flatten(ds) : ds \in [1..n -> Designators] } : n \in 1..MaxDesignators }

Slugs == { <<"x">>, <<"a", "-", "b">> }

DefAnchors == { DefPrefix \o sl : sl \in Slugs }

Anchors == ParenPaths \cup DefAnchors

MultiTargets ==
    {Home}
    \cup { [type |-> "title", titleNum |-> t] : t \in TitleNums }
    \cup { [type |-> "section", titleNum |-> t, sectionNum |-> s] :
             t \in TitleNums, s \in SectionNums }
    \cup { [type |-> "section", titleNum |-> t, sectionNum |-> s, paragraphAnchor |-> a] :
             t \in TitleNums, s \in SectionNums, a \in Anchors }

SingleTargets ==
    {Home}
    \cup { [type |-> "chapter", chapterNum |-> c] : c \in ChapterNums }
    \cup { [type |-> "section", sectionNum |-> s] : s \in SectionNums }
    \cup { [type |-> "section", sectionNum |-> s, paragraphAnchor |-> a] :
             s \in SectionNums, a \in Anchors }

Targets(r) == IF r = "multi" THEN MultiTargets ELSE SingleTargets

\* address strings a user can put in the address bar: every slot of the two
\* grammars filled with a well-formed or an ill-formed piece
HashPrefixes == { <<>>, <<"#">>, <<"#", "/">> }

NumSlots == TitleNums \cup SectionNums \cup { <<>>, <<"?", "?">> }

TailSlots ==
    {<<>>} \cup ParenPaths \cup { <<"/">> \o a : a \in DefAnchors }
    \cup { <<"(">>, <<"/">> \o DefPrefix, <<"/", "x">> }

MultiBodies ==
    { h \o t \o m \o s \o a :
        h \in { <<"t">>, <<"x">> }, t \in NumSlots,
        m \in { <<"/", "s">>, <<"/">>, <<>> }, s \in NumSlots, a \in TailSlots }

SingleBodies ==
    { h \o s \o a :
        h \in { SectionSlash, ChapterSlash, <<"s", "e", "c", "/">> },
        s \in NumSlots, a \in TailSlots }

RawAddrs == { p \o b : p \in HashPrefixes, b \in MultiBodies \cup SingleBodies }

NoTarget == [type |-> "none"]

-----------------------------------------------------------------------------
(* Codec specification: encode a target then decode it, or decode a typed  *)
(* address                                                                 *)

LoopIdle ==
    /\ content = <<>>
    /\ sectionNum = <<>>
    /\ idx = 0
    /\ stack = <<>>
    /\ pmap = <<>>
    /\ inE = FALSE
    /\ defs = <<>>
    /\ lpc = "idle"

InitCodec ==
    /\ router \in {"multi", "single"}
    /\ \/ /\ cpc = "view"
          /\ target \in Targets(router)
          /\ addr = <<>>
       \/ /\ cpc = "typed"
          /\ target = NoTarget
          /\ addr \in RawAddrs
    /\ decoded = Home
    /\ LoopIdle
    /\ ExtIdle

MultiEncode ==
    /\ router = "multi"
    /\ cpc = "view"
    /\ addr' = MultiViewToHash(target)
    /\ cpc' = "encoded"
    /\ UNCHANGED <<router, target, decoded>>
    /\ UNCHANGED loopVars
    /\ UNCHANGED extVars

MultiDecode ==
    /\ router = "multi"
    /\ cpc \in {"encoded", "typed"}
    /\ decoded' = MultiParseHash(addr)
    /\ cpc' = "decoded"
    /\ UNCHANGED <<router, target, addr>>
    /\ UNCHANGED loopVars
    /\ UNCHANGED extVars

SingleEncode ==
    /\ router = "single"
    /\ cpc = "view"
    /\ addr' = SingleViewToHash(target)
    /\ cpc' = "encoded"
    /\ UNCHANGED <<router, target, decoded>>
    /\ UNCHANGED loopVars
    /\ UNCHANGED extVars

SingleDecode ==
    /\ router = "single"
    /\ cpc \in {"encoded", "typed"}
    /\ decoded' = SingleParseHash(addr)
    /\ cpc' = "decoded"
    /\ UNCHANGED <<router, target, addr>>
    /\ UNCHANGED loopVars
    /\ UNCHANGED extVars

NextCodec == MultiEncode \/ MultiDecode \/ SingleEncode \/ SingleDecode

SpecCodec == InitCodec /\ [][NextCodec]_vars

-----------------------------------------------------------------------------
(* Codec claims                                                            *)

\* C1: multi-title round trip, parseHash(viewToHash(t)) = t for every target
\* t (home, title listing, section with or without a parenthesised path or a
\* def/<slug> anchor) with alphanumeric title and section numbers.
C1_MultiRoundTrip ==
    (router = "multi" /\ cpc = "decoded" /\ target # NoTarget) => decoded = target

\* C2: single-title round trip, parseHash(viewToHash(v)) = v for every view
\* v, also for section views that carry a paragraph path or a def/<slug>
\* anchor.
C2_SingleRoundTrip ==
    (router = "single" /\ cpc = "decoded" /\ target # NoTarget) => decoded = target

\* C3: multi-title decoding order.  't'+T+'/s'+S+'/def/'+slug decodes to the
\* section target with paragraphAnchor 'def/'+slug, 't'+T+'/s'+S+path decodes
\* to the section target with paragraphAnchor path, and an address with an
\* anchor never decodes to a bare section or to a shortened anchor.
C3_MultiDecodeOrder ==
    (router = "multi" /\ cpc = "decoded" /\ target = NoTarget) =>
        \A t \in TitleNums, s \in SectionNums :
            /\ \A sl \in Slugs :
                 StripHash(addr) = <<"t">> \o t \o <<"/", "s">> \o s \o <<"/">> \o DefPrefix \o sl
                 => decoded = [type |-> "section", titleNum |-> t, sectionNum |-> s,
                               paragraphAnchor |-> DefPrefix \o sl]
            /\ \A pp \in ParenPaths :
                 StripHash(addr) = <<"t">> \o t \o <<"/", "s">> \o s \o pp
                 => decoded = [type |-> "section", titleNum |-> t, sectionNum |-> s,
                               paragraphAnchor |-> pp]

\* the address grammars of C4, stated by decomposition of the string
AlphaNum == Digits \cup UpperLetters \cup LowerLetters

IsAlphaNum(s) == s # <<>> /\ \A p \in 1..Len(s) : s[p] \in AlphaNum

\* [<parenPath>|/def/<slug>]
IsAnchorPart(a) ==
    \/ a = <<>>
    \/ Len(a) >= 2 /\ a[1] = "("
    \/ Len(a) >= 6 /\ StartsWithAt(a, 1, <<"/">> \o DefPrefix)

\* t<title>[/s<section>[<parenPath>|/def/<slug>]]
InMultiGrammar(h) ==
    /\ StartsWithAt(h, 1, <<"t">>)
    /\ \/ IsAlphaNum(Slice(h, 2))
       \/ \E i \in 3..Len(h), j \in 3..(Len(h) + 1) :
            /\ i + 2 < j
            /\ IsAlphaNum(SubSeq(h, 2, i - 1))
            /\ SubSeq(h, i, i + 1) = <<"/", "s">>
            /\ IsAlphaNum(SubSeq(h, i + 2, j - 1))
            /\ IsAnchorPart(Slice(h, j))

\* section/<alphanumeric sectionNumber>[<parenPath>|/def/<slug>] or chapter/<n>
InSingleGrammar(h) ==
    \/ /\ StartsWithAt(h, 1, SectionSlash)
       /\ \E j \in 10..(Len(h) + 1) :
            /\ IsAlphaNum(SubSeq(h, 9, j - 1))
            /\ IsAnchorPart(Slice(h, j))
    \/ StartsWithAt(h, 1, ChapterSlash)

\* C4: an address outside the router's grammar decodes to home, in both
\* routers (among them 'section/', 'section/(a)' and 'section/??').
C4_UnrecognizedIsHome ==
    (cpc = "decoded" /\ target = NoTarget) =>
        /\ (router = "multi" /\ ~InMultiGrammar(StripHash(addr))) => decoded = Home
        /\ (router = "single" /\ ~InSingleGrammar(StripHash(addr))) => decoded = Home

-----------------------------------------------------------------------------
(* Block markup and the paragraph helpers of src/src/App.tsx               *)

NumOpen   == "<span class=\"num\">"
SpanClose == "</span>"

\* the elements of a markup string that contain the character '<'
LtItems == { NumOpen, SpanClose, "<i>", "</i>", "<" }

Whitespace == { " ", "\t", "\n", "\r" }

STRUCTURAL_TYPES ==
    { "subsection", "paragraph", "subparagraph", "clause", "subclause", "item", "subitem" }

\* end (exclusive) of the longest run of elements outside class cls from i
RECURSIVE RunEndNot(_, _, _)
RunEndNot(s, i, cls) ==
    IF i <= Len(s) /\ s[i] \notin cls THEN RunEndNot(s, i + 1, cls) ELSE i

\* String.prototype.trim
RECURSIVE TrimLeft(_)
TrimLeft(s) ==
    IF s # <<>> /\ Head(s) \in Whitespace THEN TrimLeft(Tail(s)) ELSE s

RECURSIVE TrimRight(_)
TrimRight(s) ==
    IF s # <<>> /\ s[Len(s)] \in Whitespace THEN TrimRight(SubSeq(s, 1, Len(s) - 1)) ELSE s

Trim(s) == TrimRight(TrimLeft(s))

\* variant of splitBlockHtml without the ^ anchor: the designator span is
\* looked for anywhere in the markup
splitBlockHtmlUnanchored(html) ==
    LET o == RunEndNot(html, 1, {NumOpen})
        e == RunEndNot(html, o + 1, LtItems)
    IN  IF o <= Len(html) /\ e <= Len(html) /\ html[e] = SpanClose
        THEN [matched |-> TRUE, numText |-> SubSeq(html, o + 1, e - 1),
              restHtml |-> Slice(html, e + 1)]
        ELSE [matched |-> FALSE]

\* html.match(/^<span class="num">([^<]*)<\/span>([\s\S]*)/); the run [^<]*
\* ends at the first element that contains '<', which has to be "</span>"
splitBlockHtml(html) ==
    LET e == RunEndNot(html, 2, LtItems)
    IN  IF /\ Len(html) >= 1
           /\ html[1] = NumOpen
           /\ e <= Len(html)
           /\ html[e] = SpanClose
        THEN [matched |-> TRUE, numText |-> SubSeq(html, 2, e - 1),
              restHtml |-> Slice(html, e + 1)]
        ELSE [matched |-> FALSE]

\* variant of PopDeeper that pops only strictly deeper entries (> for >=)
RECURSIVE PopDeeperStrict(_, _)
PopDeeperStrict(stk, indent) ==
    IF stk # <<>> /\ stk[Len(stk)].indent > indent
    THEN PopDeeperStrict(SubSeq(stk, 1, Len(stk) - 1), indent)
    ELSE stk

\* while (stack.length > 0 && stack[stack.length - 1].indent >= block.indent) stack.pop()
RECURSIVE PopDeeper(_, _)
PopDeeper(stk, indent) ==
    IF stk # <<>> /\ stk[Len(stk)].indent >= indent
    THEN PopDeeper(SubSeq(stk, 1, Len(stk) - 1), indent)
    ELSE stk

\* variant of StackPath that keeps only the innermost designator
StackPathTop(stk) == IF stk = <<>> THEN <<>> ELSE stk[Len(stk)].numText

\* stack.map(e => e.numText).join('')
StackPath(stk) == Flatten([k \in 1..Len(stk) |-> stk[k].numText])

ParaId(secNum, path) == <<"p", "-">> \o secNum \o path

\* variant of ParaStep that pushes without popping the closed entries
ParaStepNoPop(stk, map, block, i, secNum) ==
    LET split == splitBlockHtml(block.html)
    IN  IF block.type \notin STRUCTURAL_TYPES THEN [stack |-> stk, map |-> map]
        ELSE IF ~split.matched THEN [stack |-> stk, map |-> map]
        ELSE LET pushed == Append(stk, [indent |-> block.indent,
                                        numText |-> Trim(split.numText)])
                 path   == StackPath(pushed)
             IN  [stack |-> pushed,
                  map   |-> (i :> [path |-> path, id |-> ParaId(secNum, path)]) @@ map]

\* the callback of content.forEach in buildParaMetaMap, for block i (0-based):
\* the stack and the map after the callback
ParaStep(stk, map, block, i, secNum) ==
    LET split == splitBlockHtml(block.html)
    IN  IF block.type \notin STRUCTURAL_TYPES THEN [stack |-> stk, map |-> map]
        ELSE IF ~split.matched THEN [stack |-> stk, map |-> map]
        ELSE LET pushed == Append(PopDeeper(stk, block.indent),
                                  [indent |-> block.indent, numText |-> Trim(split.numText)])
                 path   == StackPath(pushed)
             IN  [stack |-> pushed,
                  map   |-> (i :> [path |-> path, id |-> ParaId(secNum, path)]) @@ map]

\* buildParaMetaMap(content, sectionNum): the loop run over blocks 0..n-1
RECURSIVE ParaLoop(_, _, _)
ParaLoop(c, n, secNum) ==
    IF n = 0 THEN [stack |-> <<>>, map |-> <<>>]
    ELSE LET prev == ParaLoop(c, n - 1, secNum)
         IN  ParaStep(prev.stack, prev.map, c[n], n - 1, secNum)

buildParaMetaMap(c, secNum) == ParaLoop(c, Len(c), secNum).map

-----------------------------------------------------------------------------
(* Inputs of the path-builder specification                                *)

MaxBlocks == 4
MaxIndent == 2

StructuralByDepth ==
    << "subsection", "paragraph", "subparagraph", "clause", "subclause", "item", "subitem" >>

DesA == <<"(", "a", ")">>
DesB == <<"(", "b", ")">>
Des1 == <<"(", "1", ")">>
Des2 == <<"(", "2", ")">>

\* the text inside the designator span as the data files spell it: two
\* designators for each depth of the outline
RawNumsByDepth ==
    << { DesA, DesB },
       { Des1, Des2 },
       { <<"(", "A", ")">>, <<"(", "B", ")">> },
       { <<"(", "i", ")">>, <<"(", "i", "i", ")">> },
       { <<"(", "I", ")">>, <<"(", "I", "I", ")">> } >>

BodyText == <<" ", "x">>

NumHtml(raw) == <<NumOpen>> \o raw \o <<SpanClose>> \o BodyText

\* a structural block whose markup does not begin with the designator span
MalformedHtml == BodyText \o <<NumOpen>> \o DesB \o <<SpanClose>>

ParaBlocks ==
    UNION { { [type |-> StructuralByDepth[d + 1], indent |-> d, html |-> NumHtml(raw)] :
                raw \in RawNumsByDepth[d + 1] } : d \in 0..MaxIndent }
    \cup { [type |-> StructuralByDepth[d + 1], indent |-> d, html |-> MalformedHtml] :
             d \in 0..MaxIndent }
    \cup { [type |-> "continuation", indent |-> 1, html |-> NumHtml(Des1)] }

ParaContents == UNION { [1..n -> ParaBlocks] : n \in 1..MaxBlocks }

CodecIdle ==
    /\ router = "none"
    /\ target = NoTarget
    /\ addr = <<>>
    /\ decoded = Home
    /\ cpc = "idle"

-----------------------------------------------------------------------------
(* Path-builder specification: buildParaMetaMap visits the blocks in order *)

InitPara ==
    /\ CodecIdle
    /\ ExtIdle
    /\ content \in ParaContents
    /\ sectionNum = <<"1", "0", "6">>
    /\ idx = 0
    /\ stack = <<>>
    /\ pmap = <<>>
    /\ inE = FALSE
    /\ defs = <<>>
    /\ lpc = "para"

\* one call of the forEach callback
ParaVisit ==
    /\ lpc = "para"
    /\ idx < Len(content)
    /\ LET r == ParaStep(stack, pmap, content[idx + 1], idx, sectionNum)
       IN  /\ stack' = r.stack
           /\ pmap' = r.map
    /\ idx' = idx + 1
    /\ UNCHANGED <<content, sectionNum, inE, defs, lpc>>
    /\ UNCHANGED codecVars
    /\ UNCHANGED extVars

\* return map
ParaReturn ==
    /\ lpc = "para"
    /\ idx = Len(content)
    /\ lpc' = "done"
    /\ UNCHANGED <<content, sectionNum, idx, stack, pmap, inE, defs>>
    /\ UNCHANGED codecVars
    /\ UNCHANGED extVars

NextPara == ParaVisit \/ ParaReturn

SpecPara == InitPara /\ [][NextPara]_vars

-----------------------------------------------------------------------------
(* Path-builder claims.  Blocks are content[1..n]; the map is keyed by the *)
(* 0-based index of the source, so block content[i] has key i - 1.         *)

IsStructuralType(b) == b.type \in STRUCTURAL_TYPES

\* the markup begins with '<span class="num">', some text without '<' and
\* '</span>'
BeginsWithDesignatorSpan(html) ==
    \E e \in 2..Len(html) :
        /\ html[1] = NumOpen
        /\ html[e] = SpanClose
        /\ \A m \in 2..(e - 1) : html[m] \notin LtItems

\* a structural block that begins with its designator span
IsDesignated(b) == IsStructuralType(b) /\ BeginsWithDesignatorSpan(b.html)

\* a structural block without the designator span
IsMalformed(b) == IsStructuralType(b) /\ ~BeginsWithDesignatorSpan(b.html)

TokenOf(b) == Trim(splitBlockHtml(b.html).numText)

\* every structural block is well formed, the first structural block has
\* indent 0 and the indent grows by at most one from one structural block to
\* the next
ValidSequence(c) ==
    \A i \in 1..Len(c) :
        IsStructuralType(c[i]) =>
            /\ IsDesignated(c[i])
            /\ (\A j \in 1..(i - 1) : ~IsStructuralType(c[j])) => c[i].indent = 0
            /\ \A j \in 1..(i - 1) :
                 (/\ IsStructuralType(c[j])
                  /\ \A m \in (j + 1)..(i - 1) : ~IsStructuralType(c[m]))
                 => c[i].indent <= c[j].indent + 1

\* the most recent structural block at depth k before block i
LastAtDepth(c, i, k) ==
    CHOOSE j \in 1..(i - 1) :
        /\ IsStructuralType(c[j]) /\ c[j].indent = k
        /\ \A m \in (j + 1)..(i - 1) : ~(IsStructuralType(c[m]) /\ c[m].indent = k)

\* the tokens of the ancestors at depths 0..d-1 followed by the block's own
ExpectedTokens(c, i) ==
    [k \in 1..(c[i].indent + 1) |->
        IF k = c[i].indent + 1 THEN TokenOf(c[i])
        ELSE TokenOf(c[LastAtDepth(c, i, k - 1)])]

\* C5: in a valid sequence the path of a structural block at depth d is the
\* concatenation of exactly d+1 tokens, those of its ancestors at depths
\* 0..d-1 and its own; the stack holds d+1 entries right after the block.
C5_PathIsAncestorsThenOwn ==
    ValidSequence(content) =>
        /\ \A i \in 1..idx :
             IsStructuralType(content[i]) =>
                /\ (i - 1) \in DOMAIN pmap
                /\ pmap[i - 1].path = Flatten(ExpectedTokens(content, i))
        /\ (idx > 0 /\ IsStructuralType(content[idx])) =>
                /\ Len(stack) = content[idx].indent + 1
                /\ [k \in 1..Len(stack) |-> stack[k].numText] = ExpectedTokens(content, idx)

C5_Witness ==
    /\ lpc = "done"
    /\ ValidSequence(content)
    /\ \E i \in 1..Len(content), j \in 1..Len(content) :
         /\ i < j
         /\ IsDesignated(content[i]) /\ content[i].indent = 2
         /\ IsDesignated(content[j]) /\ content[j].indent = 1
         /\ Len(pmap[i - 1].path) = 9
         /\ Len(pmap[j - 1].path) = 6

\* the designator texts put in place of the one of block k
ReplacementNums == { <<"(", "z", ")">>, Des1 }

\* block k with the text of its designator span replaced by raw
ReplaceDesignator(c, k, raw) ==
    [c EXCEPT ![k].html =
        <<NumOpen>> \o raw \o <<SpanClose>> \o splitBlockHtml(c[k].html).restHtml]

\* the blocks after k up to the next designated structural block whose indent
\* is less than or equal to that of k
Descendants(c, k) ==
    { j \in (k + 1)..Len(c) :
        \A m \in (k + 1)..j : IsDesignated(c[m]) => c[m].indent > c[k].indent }

SameEntry(m1, m2, key) ==
    /\ (key \in DOMAIN m1) <=> (key \in DOMAIN m2)
    /\ key \in DOMAIN m1 => m1[key] = m2[key]

SubsectionB == [type |-> "subsection", indent |-> 0, html |-> NumHtml(DesB)]
Paragraph1  == [type |-> "paragraph", indent |-> 1, html |-> NumHtml(Des1)]
Paragraph2  == [type |-> "paragraph", indent |-> 1, html |-> NumHtml(Des2)]

C7_Scenario ==
    /\ (lpc = "done" /\ content = <<SubsectionB, Paragraph1>>) =>
            /\ pmap[0].path = DesB
            /\ pmap[1].path = DesB \o Des1
    /\ (lpc = "done" /\ content = <<SubsectionB, Paragraph1, Paragraph2>>) =>
            /\ pmap[0].path = DesB
            /\ pmap[1].path = DesB \o Des1
            /\ pmap[2].path = DesB \o Des2

\* a visit of a designated block deeper than the top of the stack keeps every
\* entry that was on the stack
C7_ChildKeepsParent ==
    (/\ lpc = "para" /\ idx < Len(content)
     /\ IsDesignated(content[idx + 1])
     /\ stack # <<>>
     /\ content[idx + 1].indent > stack[Len(stack)].indent)
    => /\ Len(stack') = Len(stack) + 1
       /\ SubSeq(stack', 1, Len(stack)) = stack

\* C7: [subsection (b) at indent 0, paragraph (1) at indent 1] gives the paths
\* "(b)" and "(b)(1)"; a following sibling (2) at indent 1 gives "(b)(2)"; a
\* child at depth d+1 never alters the token recorded for depth d.
C7_SiblingReplacesChildKeeps ==
    []C7_Scenario /\ [][C7_ChildKeepsParent]_vars

C7_Witness ==
    /\ lpc = "done"
    /\ content = <<SubsectionB, Paragraph1, Paragraph2>>
    /\ DOMAIN pmap = {0, 1, 2}

\* two structural blocks with the same indent and the same markup are
\* separated by a structural block of smaller indent: no parent has two
\* children with the same designator
DistinctSiblings(c) ==
    \A i \in 1..Len(c), j \in 1..Len(c) :
        (/\ i < j
         /\ IsStructuralType(c[i]) /\ IsStructuralType(c[j])
         /\ c[i].indent = c[j].indent /\ c[i].html = c[j].html)
        => \E m \in (i + 1)..(j - 1) :
              IsStructuralType(c[m]) /\ c[m].indent < c[i].indent

\* C8: no two block indices of the returned map have the same id, also for
\* sequences with a malformed structural block or with skipped indent levels
\* (stated for sequences in which no parent has two children with the same
\* designator).
C8_AnchorIdUnique ==
    (lpc = "done" /\ DistinctSiblings(content)) =>
        \A i \in DOMAIN pmap, j \in DOMAIN pmap :
            i # j => pmap[i].id # pmap[j].id

\* the sequence with every malformed structural block retyped as prose
MalformedAsProse(c) ==
    [i \in 1..Len(c) |->
        IF IsMalformed(c[i]) THEN [c[i] EXCEPT !.type = "continuation"] ELSE c[i]]

C9_NoEntryAndSameMap ==
    /\ \A i \in 1..Len(content) : IsMalformed(content[i]) => (i - 1) \notin DOMAIN pmap
    /\ lpc = "done" => pmap = buildParaMetaMap(MalformedAsProse(content), sectionNum)

C9_VisitLeavesStack ==
    (lpc = "para" /\ idx < Len(content) /\ IsMalformed(content[idx + 1]))
    => (stack' = stack /\ pmap' = pmap)

\* C9: a structural block without the designator span gets no map entry,
\* leaves the stack unchanged, and the entries of the other blocks are those
\* of the sequence with that block treated as non-structural.
C9_MalformedSkipped ==
    []C9_NoEntryAndSameMap /\ [][C9_VisitLeavesStack]_vars

\* a malformed block between two designated blocks, the later one deeper than
\* the earlier one
C9_Witness ==
    /\ lpc = "done"
    /\ \E i \in 2..(Len(content) - 1) :
         /\ IsMalformed(content[i])
         /\ content[i].indent = 0
         /\ IsDesignated(content[i - 1])
         /\ IsDesignated(content[i + 1])
         /\ content[i + 1].indent > content[i - 1].indent
         /\ Len(pmap[i].path) = 6

-----------------------------------------------------------------------------
(* Section 115(e) definition helpers, src/src/App.tsx                      *)

\* the characters U+201C and U+201D (opening and closing curly quote), each
\* one element of a markup string
LDQUO == "u201c"
RDQUO == "u201d"

UpperSeq == << "A", "B", "C", "D", "E", "F", "G", "H", "I", "J", "K", "L", "M",
               "N", "O", "P", "Q", "R", "S", "T", "U", "V", "W", "X", "Y", "Z" >>
LowerSeq == << "a", "b", "c", "d", "e", "f", "g", "h", "i", "j", "k", "l", "m",
               "n", "o", "p", "q", "r", "s", "t", "u", "v", "w", "x", "y", "z" >>

\* the characters of a markup element
ItemChars(item) ==
    IF item = NumOpen
    THEN << "<", "s", "p", "a", "n", " ", "c", "l", "a", "s", "s", "=", "\"",
            "n", "u", "m", "\"", ">" >>
    ELSE IF item = SpanClose THEN << "<", "/", "s", "p", "a", "n", ">" >>
    ELSE IF item = "<i>" THEN << "<", "i", ">" >>
    ELSE IF item = "</i>" THEN << "<", "/", "i", ">" >>
    ELSE << item >>

ToChars(s) == Flatten([k \in 1..Len(s) |-> ItemChars(s[k])])

\* String.prototype.toLowerCase on the letters A-Z
ToLowerChar(c) ==
    IF c \in UpperLetters
    THEN LowerSeq[CHOOSE k \in 1..Len(UpperSeq) : UpperSeq[k] = c]
    ELSE c

ToLowerCase(s) == [k \in 1..Len(s) |-> ToLowerChar(s[k])]

SlugChars == LowerLetters \cup Digits

\* .replace(/[^a-z0-9]/g, '-'): the pattern without the +, one dash for
\* each character
CollapseEachNonAlnum(s) == [k \in 1..Len(s) |-> IF s[k] \in SlugChars THEN s[k] ELSE "-"]

\* .replace(/[^a-z0-9]+/g, '-')
RECURSIVE CollapseNonAlnum(_)
CollapseNonAlnum(s) ==
    IF s = <<>> THEN <<>>
    ELSE IF Head(s) \in SlugChars THEN <<Head(s)>> \o CollapseNonAlnum(Tail(s))
    ELSE <<"-">> \o CollapseNonAlnum(Slice(s, RunEndNot(s, 1, SlugChars)))

\* .replace(/^-+|-+$/g, '')
StripDashes(s) ==
    LET b == RunEnd(s, 1, {"-"})
        t == Slice(s, b)
        RECURSIVE DropTrailing(_)
        DropTrailing(u) ==
            IF u # <<>> /\ u[Len(u)] = "-" THEN DropTrailing(SubSeq(u, 1, Len(u) - 1)) ELSE u
    IN  DropTrailing(t)

\* term.toLowerCase().replace(/[^a-z0-9]+/g, '-').replace(/^-+|-+$/g, '')
Slugify(term) == StripDashes(CollapseNonAlnum(ToLowerCase(ToChars(term))))

\* /class="num">\(e\)/.test(html)
HasNumE(html) ==
    \E p \in 1..Len(html) :
        html[p] = NumOpen /\ StartsWithAt(html, p + 1, <<"(", "e", ")">>)

\* html.match(/“([^”]+)”/): <<position of the opening quote,
\* position of the closing quote>> of the leftmost match, or <<0, 0>>
TermMatch(html) ==
    LET Closes(p) == RunEndNot(html, p + 1, {RDQUO})
        Starts == { p \in 1..Len(html) :
                      /\ html[p] = LDQUO
                      /\ Closes(p) <= Len(html)
                      /\ Closes(p) >= p + 2 }
    IN  IF Starts = {} THEN <<0, 0>>
        ELSE LET p == CHOOSE q \in Starts : \A r \in Starts : q <= r
             IN  <<p, Closes(p)>>

\* html.match(/^<span class="num">([^<]+)<\/span>/): the captured text, or
\* the values of the ternary around it
DesignatorOf(html) ==
    LET e == RunEndNot(html, 2, LtItems)
    IN  IF /\ Len(html) >= 1
           /\ html[1] = NumOpen
           /\ e > 2
           /\ e <= Len(html)
           /\ html[e] = SpanClose
        THEN Trim(SubSeq(html, 2, e - 1))
        ELSE <<>>

SubsectionE == <<"(", "e", ")">>

\* one iteration of the for loop of parseSec115eDefs on block i (0-based):
\* the flag, the array and whether the loop was left by break
DefsStep(flag, arr, block, i) ==
    IF block.type = "subsection" /\ HasNumE(block.html)
    THEN [inE |-> TRUE, defs |-> arr, broke |-> FALSE]
    ELSE IF flag /\ block.type = "subsection" /\ block.indent <= 1
    THEN [inE |-> flag, defs |-> arr, broke |-> TRUE]
    ELSE IF ~flag
    THEN [inE |-> flag, defs |-> arr, broke |-> FALSE]
    ELSE LET tm == TermMatch(block.html)
         IN  IF block.indent = 2 /\ tm[1] # 0
             THEN LET term == SubSeq(block.html, tm[1] + 1, tm[2] - 1)
                  IN  [inE |-> flag,
                       defs |-> Append(arr,
                                  [blockIndex |-> i, term |-> term, slug |-> Slugify(term),
                                   anchor |-> SubsectionE \o DesignatorOf(block.html),
                                   indent |-> 2]),
                       broke |-> FALSE]
             ELSE [inE |-> flag, defs |-> arr, broke |-> FALSE]

-----------------------------------------------------------------------------
(* Inputs of the definition-extractor specification                        *)



\* "musical work" in curly quotes, followed by text
QuotedTerm == << LDQUO, "M", "u", "s", "i", "c", "a", "l", " ", "w", "o", "r", "k", RDQUO,
                 " ", "x" >>

\* a straight-quoted phrase
StraightQuoted == << "\"", "w", "\"", " ", "x" >>

DefBlocks ==
    { [type |-> "subsection", indent |-> 0, html |-> NumHtml(SubsectionE)],
      [type |-> "subsection", indent |-> 0, html |-> NumHtml(DesB)],
      [type |-> "paragraph", indent |-> 1, html |-> NumHtml(Des1)],
      [type |-> "paragraph", indent |-> 2,
       html |-> <<NumOpen>> \o Des1 \o <<SpanClose>> \o <<" ">> \o QuotedTerm],
      [type |-> "paragraph", indent |-> 2,
       html |-> <<NumOpen>> \o Des2 \o <<SpanClose>> \o <<" ">> \o StraightQuoted],
      [type |-> "paragraph", indent |-> 2, html |-> QuotedTerm],
      [type |-> "subparagraph", indent |-> 3,
       html |-> <<NumOpen, "(", "A", ")", SpanClose, " ">> \o QuotedTerm],
      [type |-> "continuation", indent |-> 2, html |-> BodyText] }

DefContents == UNION { [1..n -> DefBlocks] : n \in 1..MaxBlocks }

-----------------------------------------------------------------------------
(* Definition-extractor specification: parseSec115eDefs visits the blocks  *)

InitDefs ==
    /\ CodecIdle
    /\ ExtIdle
    /\ content \in DefContents
    /\ sectionNum = <<"1", "1", "5">>
    /\ idx = 0
    /\ stack = <<>>
    /\ pmap = <<>>
    /\ inE = FALSE
    /\ defs = <<>>
    /\ lpc = "defs"

\* an iteration that ends with continue or falls through
DefsVisit ==
    /\ lpc = "defs"
    /\ idx < Len(content)
    /\ LET r == DefsStep(inE, defs, content[idx + 1], idx)
       IN  /\ ~r.broke
           /\ inE' = r.inE
           /\ defs' = r.defs
    /\ idx' = idx + 1
    /\ UNCHANGED <<content, sectionNum, stack, pmap, lpc>>
    /\ UNCHANGED codecVars
    /\ UNCHANGED extVars

\* the iteration that meets the next subsection: break, then return defs
DefsBreak ==
    /\ lpc = "defs"
    /\ idx < Len(content)
    /\ DefsStep(inE, defs, content[idx + 1], idx).broke
    /\ lpc' = "done"
    /\ UNCHANGED <<content, sectionNum, idx, stack, pmap, inE, defs>>
    /\ UNCHANGED codecVars
    /\ UNCHANGED extVars

\* the loop ran off the end: return defs
DefsReturn ==
    /\ lpc = "defs"
    /\ idx = Len(content)
    /\ lpc' = "done"
    /\ UNCHANGED <<content, sectionNum, idx, stack, pmap, inE, defs>>
    /\ UNCHANGED codecVars
    /\ UNCHANGED extVars

NextDefs == DefsVisit \/ DefsBreak \/ DefsReturn

SpecDefs == InitDefs /\ [][NextDefs]_vars

\* C10: a block at the target indent inside subsection (e) that contains a
\* curly-quoted term but does not begin with a designator span yields no
\* record, so no record has the bare anchor "(e)".
C10_NoRecordWithoutDesignator ==
    \A k \in 1..Len(defs) :
        /\ defs[k].anchor # SubsectionE
        /\ BeginsWithDesignatorSpan(content[defs[k].blockIndex + 1].html)

-----------------------------------------------------------------------------
(* Section 101: parseSec101Defs of both apps and getFullDefHtml            *)
(*                                                                         *)
(* In the section 101 markup a paragraph tag ("<p class=\"indent1\">",     *)
(* "</p>") is one element of the sequence.                                 *)

IndentClasses == << "indent0", "indent1", "indent2" >>

POpenTags == << "<p class=\"indent0\">", "<p class=\"indent1\">", "<p class=\"indent2\">" >>

PClose == "</p>"

PopupOpenTags == << "<p class=\"def-popup-para indent0\">",
                    "<p class=\"def-popup-para indent1\">",
                    "<p class=\"def-popup-para indent2\">" >>

IsPOpen(item) == \E n \in 1..Len(POpenTags) : POpenTags[n] = item

\* the capture group (indent\d+) of a paragraph tag
IndentClassOf(item) == IndentClasses[CHOOSE n \in 1..Len(POpenTags) : POpenTags[n] = item]

\* the tag `<p class="def-popup-para ${indentClass}">`
PopupOpen(cls) == PopupOpenTags[CHOOSE n \in 1..Len(IndentClasses) : IndentClasses[n] = cls]

\* a nullable string: null, or a value
Null == <<>>
Some(x) == <<x>>

\* pRegex.exec(html) with lastIndex = pos, for
\* /<p class="(indent\d+)">([\s\S]*?)<\/p>/g: the positions of the
\* paragraph tag and of the first closing tag after it, or <<0, 0>>
Sec101Exec(html, pos) ==
    LET Opens == { p \in pos..Len(html) :
                     /\ IsPOpen(html[p])
                     /\ \E q \in (p + 1)..Len(html) : html[q] = PClose }
    IN  IF Opens = {} THEN <<0, 0>>
        ELSE LET p == CHOOSE o \in Opens : \A r \in Opens : o <= r
                 q == CHOOSE c \in (p + 1)..Len(html) :
                        /\ html[c] = PClose
                        /\ \A r \in (p + 1)..(c - 1) : html[r] # PClose
             IN  <<p, q>>

\* the body of the while loop of the single-title parseSec101Defs
SingleSec101Entry(indentClass, innerHtml) ==
    LET tm == TermMatch(innerHtml)
    IN  IF indentClass = "indent1" /\ tm[1] # 0
        THEN LET term == SubSeq(innerHtml, tm[1] + 1, tm[2] - 1)
             IN  [indentClass |-> indentClass, innerHtml |-> innerHtml,
                  term |-> Some(term), slug |-> Some(Slugify(term))]
        ELSE [indentClass |-> indentClass, innerHtml |-> innerHtml,
              term |-> Null, slug |-> Null]

\* innerHtml.match(/“([^"”]+)”/) of the multi-title app: as TermMatch, with
\* the straight quote excluded from the quoted text as well
MultiTermMatch(html) ==
    LET Closes(p) == RunEndNot(html, p + 1, {RDQUO, "\""})
        Starts == { p \in 1..Len(html) :
                      /\ html[p] = LDQUO
                      /\ Closes(p) <= Len(html)
                      /\ Closes(p) >= p + 2
                      /\ html[Closes(p)] = RDQUO }
    IN  IF Starts = {} THEN <<0, 0>>
        ELSE LET p == CHOOSE q \in Starts : \A r \in Starts : q <= r
             IN  <<p, Closes(p)>>

\* .replace(/^-|-$/g, ''): at most one dash is removed at each end
StripOneDash(s) ==
    LET t == IF s # <<>> /\ s[1] = "-" THEN Tail(s) ELSE s
    IN  IF t # <<>> /\ t[Len(t)] = "-" THEN SubSeq(t, 1, Len(t) - 1) ELSE t

\* term.toLowerCase().replace(/[^a-z0-9]+/g, '-').replace(/^-|-$/g, '')
MultiSlugify(term) == StripOneDash(CollapseNonAlnum(ToLowerCase(ToChars(term))))

\* the body of the while loop of the multi-title parseSec101Defs
MultiSec101Entry(indentClass, innerHtml) ==
    IF indentClass = "indent1"
    THEN LET tm == MultiTermMatch(innerHtml)
             term == IF tm[1] # 0 THEN SubSeq(innerHtml, tm[1] + 1, tm[2] - 1) ELSE <<>>
         IN  [slug |-> MultiSlugify(term), term |-> term,
              innerHtml |-> innerHtml, indentClass |-> indentClass]
    ELSE [slug |-> <<>>, term |-> <<>>, innerHtml |-> innerHtml, indentClass |-> indentClass]

\* defs.findIndex(d => d.slug === slug), 1-based, 0 when there is none
FindSlug(list, slug) ==
    IF \E k \in 1..Len(list) : list[k].slug = Some(slug)
    THEN CHOOSE k \in 1..Len(list) :
           /\ list[k].slug = Some(slug)
           /\ \A j \in 1..(k - 1) : list[j].slug # Some(slug)
    ELSE 0

\* `<p class="def-popup-para ${indentClass}">${innerHtml}</p>`
PopupPara(entry) == <<PopupOpen(entry.indentClass)>> \o entry.innerHtml \o <<PClose>>

\* the for loop of getFullDefHtml from position i, started at position start
RECURSIVE FullDefLoop(_, _, _)
FullDefLoop(list, start, i) ==
    IF i > Len(list) THEN <<>>
    ELSE IF i > start /\ list[i].indentClass = "indent1" THEN <<>>
    ELSE PopupPara(list[i]) \o FullDefLoop(list, start, i + 1)

getFullDefHtml(list, slug) ==
    LET start == FindSlug(list, slug)
    IN  IF start = 0 THEN <<>> ELSE FullDefLoop(list, start, start)

-----------------------------------------------------------------------------
(* Inputs of the section 101 specification                                 *)

MaxParas == 3

\* "motion picture" in curly quotes, followed by text
MotionPicture == << LDQUO, "m", "o", "t", "i", "o", "n", " ", "p", "i", "c", "t", "u", "r",
                    "e", RDQUO, " ", "x" >>

\* a curly-quoted phrase that itself quotes a word in straight quotes
CurlyAroundStraight == << LDQUO, "a", " ", "\"", "b", "\"", RDQUO, " ", "x" >>

\* two curly-quoted phrases
TwoSpans == << "x", " ", LDQUO, "a", RDQUO, " ", LDQUO, "b", RDQUO >>

Sec101Paras ==
    { [indent |-> 1, inner |-> MotionPicture],
      [indent |-> 1, inner |-> StraightQuoted],
      [indent |-> 1, inner |-> CurlyAroundStraight],
      [indent |-> 1, inner |-> TwoSpans],
      [indent |-> 2, inner |-> MotionPicture],
      [indent |-> 2, inner |-> BodyText],
      [indent |-> 0, inner |-> BodyText] }

Sec101Docs == UNION { [1..n -> Sec101Paras] : n \in 0..MaxParas }

\* the markup of a document: its paragraphs, each followed by a line break
RenderPara(para) == <<POpenTags[para.indent + 1]>> \o para.inner \o <<PClose, "\n">>

RenderDoc(d) == Flatten([k \in 1..Len(d) |-> RenderPara(d[k])])

\* the slugs a popup is asked for
AskedSlugs ==
    { << "m", "o", "t", "i", "o", "n", "-", "p", "i", "c", "t", "u", "r", "e" >>,
      << "a" >>,
      << "z" >> }

-----------------------------------------------------------------------------
(* Section 101 specification: the exec loop of parseSec101Defs, then one   *)
(* popup lookup                                                            *)

InitSec101 ==
    /\ router \in {"multi", "single"}
    /\ target = NoTarget
    /\ addr = <<>>
    /\ decoded = Home
    /\ cpc = "idle"
    /\ LoopIdle
    /\ BesideSec101Idle
    /\ doc \in Sec101Docs
    /\ dpos = 1
    /\ dres = <<>>
    /\ dslug = <<>>
    /\ dout = <<>>
    /\ dpc = "parse"

\* one iteration of the while loop
Sec101Visit ==
    /\ dpc = "parse"
    /\ LET html == RenderDoc(doc)
           m == Sec101Exec(html, dpos)
       IN  /\ m[1] # 0
           /\ LET indentClass == IndentClassOf(html[m[1]])
                  innerHtml == SubSeq(html, m[1] + 1, m[2] - 1)
              IN  dres' = Append(dres, IF router = "single"
                                       THEN SingleSec101Entry(indentClass, innerHtml)
                                       ELSE MultiSec101Entry(indentClass, innerHtml))
           /\ dpos' = m[2] + 1
    /\ UNCHANGED <<doc, dslug, dout, dpc>>
    /\ UNCHANGED <<codecVars, loopVars, besideSec101Vars>>

\* exec returns null: the loop ends and the array is returned
Sec101Return ==
    /\ dpc = "parse"
    /\ Sec101Exec(RenderDoc(doc), dpos)[1] = 0
    /\ dpc' = "parsed"
    /\ UNCHANGED <<doc, dpos, dres, dslug, dout>>
    /\ UNCHANGED <<codecVars, loopVars, besideSec101Vars>>

\* a click on an annotated term of the single-title app asks for the popup
Sec101Popup ==
    /\ dpc = "parsed"
    /\ router = "single"
    /\ \E slug \in AskedSlugs :
        /\ dslug' = slug
        /\ dout' = getFullDefHtml(dres, slug)
    /\ dpc' = "done"
    /\ UNCHANGED <<doc, dpos, dres>>
    /\ UNCHANGED <<codecVars, loopVars, besideSec101Vars>>

NextSec101 == Sec101Visit \/ Sec101Return \/ Sec101Popup

SpecSec101 == InitSec101 /\ [][NextSec101]_vars

\* the text of the first span of one or more characters between an opening
\* and a closing curly quote, as <<found, text>>
FirstCurlySpan(inner) ==
    LET Spans == { pq \in (1..Len(inner)) \X (1..Len(inner)) :
                     /\ inner[pq[1]] = LDQUO
                     /\ inner[pq[2]] = RDQUO
                     /\ pq[2] > pq[1] + 1
                     /\ \A r \in (pq[1] + 1)..(pq[2] - 1) : inner[r] # RDQUO }
    IN  IF Spans = {} THEN [found |-> FALSE, text |-> <<>>]
        ELSE LET pq == CHOOSE a \in Spans : \A b \in Spans : a[1] <= b[1]
             IN  [found |-> TRUE, text |-> SubSeq(inner, pq[1] + 1, pq[2] - 1)]

\* whether an entry carries a term, and which term and slug
EntryHasTerm(entry) == IF router = "single" THEN entry.term # Null ELSE entry.term # <<>>
EntryTerm(entry) == IF router = "single" THEN entry.term[1] ELSE entry.term
EntrySlug(entry) == IF router = "single" THEN entry.slug[1] ELSE entry.slug

\* C11: parseSec101Defs returns one entry for each paragraph, in document
\* order; an entry carries a term exactly when its paragraph is at indent
\* class 1 and contains a curly-quoted span, the term is the text of the
\* first such span, and the slug is the normalization of the term.
C11_OneEntryPerParagraph ==
    dpc \in {"parsed", "done"} =>
        /\ Len(dres) = Len(doc)
        /\ \A k \in 1..Len(dres) :
            LET span == FirstCurlySpan(doc[k].inner)
            IN  /\ dres[k].indentClass = IndentClasses[doc[k].indent + 1]
                /\ dres[k].innerHtml = doc[k].inner
                /\ EntryHasTerm(dres[k]) <=> (doc[k].indent = 1 /\ span.found)
                /\ EntryHasTerm(dres[k]) =>
                    /\ EntryTerm(dres[k]) = span.text
                    /\ EntrySlug(dres[k]) = Slugify(span.text)

\* the paragraphs from position i up to the next one at indent class 1 or 0
RECURSIVE BodyParas(_, _)
BodyParas(d, i) ==
    IF i > Len(d) \/ d[i].indent <= 1 THEN <<>>
    ELSE <<PopupOpenTags[d[i].indent + 1]>> \o d[i].inner \o <<PClose>> \o BodyParas(d, i + 1)

\* C19: for a slug found in the parsed list getFullDefHtml returns the
\* term's paragraph followed by every paragraph up to, and excluding, the
\* next paragraph at indent class 1 or lower; for a slug no entry has it
\* returns the empty string.
C19_BodyEndsAtNextShallower ==
    dpc = "done" =>
        IF \E k \in 1..Len(dres) : dres[k].slug = Some(dslug)
        THEN LET k == CHOOSE j \in 1..Len(dres) :
                        /\ dres[j].slug = Some(dslug)
                        /\ \A i \in 1..(j - 1) : dres[i].slug # Some(dslug)
             IN  dout = <<PopupOpenTags[doc[k].indent + 1]>> \o doc[k].inner \o <<PClose>>
                          \o BodyParas(doc, k + 1)
        ELSE dout = <<>>

-----------------------------------------------------------------------------
(* Slug specification: the normalization of parseSec101Defs and            *)
(* parseSec115eDefs applied to a term, then to its own result              *)

MaxTermLen == 4

TermAlphabet == {"A", "b", "1", " ", ".", "-"}

MotionPictureTerm == << "M", "o", "t", "i", "o", "n", " ", "P", "i", "c", "t", "u", "r", "e" >>

SoundRecordingTerm == << "s", "o", "u", "n", "d", " ", "r", "e", "c", "o", "r", "d", "i", "n",
                         "g", "." >>

SlugTerms ==
    UNION { [1..n -> TermAlphabet] : n \in 0..MaxTermLen }
      \cup { MotionPictureTerm, SoundRecordingTerm }

InitSlug ==
    /\ CodecIdle
    /\ LoopIdle
    /\ BesideSlugIdle
    /\ sterm \in SlugTerms
    /\ sslug = <<>>
    /\ sagain = <<>>
    /\ spc = "term"

\* slug = term.toLowerCase().replace(...).replace(...)
SlugOfTerm ==
    /\ spc = "term"
    /\ sslug' = Slugify(sterm)
    /\ spc' = "slug"
    /\ UNCHANGED <<sterm, sagain>>
    /\ UNCHANGED <<codecVars, loopVars, besideSlugVars>>

\* the same expression applied to the slug
SlugOfSlug ==
    /\ spc = "slug"
    /\ sagain' = Slugify(sslug)
    /\ spc' = "again"
    /\ UNCHANGED <<sterm, sslug>>
    /\ UNCHANGED <<codecVars, loopVars, besideSlugVars>>

NextSlug == SlugOfTerm \/ SlugOfSlug

SpecSlug == InitSlug /\ [][NextSlug]_vars

\* only a-z, 0-9 and '-', no '-' at either end, no two '-' in a row
WellFormedSlug(g) ==
    /\ \A k \in 1..Len(g) : g[k] \in SlugChars \cup {"-"}
    /\ g # <<>> => g[1] # "-" /\ g[Len(g)] # "-"
    /\ \A k \in 1..(Len(g) - 1) : ~(g[k] = "-" /\ g[k + 1] = "-")

\* C12: the slug of every term is made of a-z, 0-9 and '-', has no '-' at
\* either end and no two adjacent '-', and normalizing a slug gives the slug
\* back; 'Motion Picture' gives 'motion-picture' and 'sound recording.'
\* gives 'sound-recording'.
C12_SlugIdempotent ==
    /\ spc \in {"slug", "again"} =>
        /\ WellFormedSlug(sslug)
        /\ sterm = MotionPictureTerm =>
             sslug = << "m", "o", "t", "i", "o", "n", "-", "p", "i", "c", "t", "u", "r", "e" >>
        /\ sterm = SoundRecordingTerm =>
             sslug = << "s", "o", "u", "n", "d", "-", "r", "e", "c", "o", "r", "d", "i", "n",
                        "g" >>
    /\ spc = "again" => sagain = sslug

\* a term with a run of two separators inside and one at each end has been
\* normalized twice
C12_Witness ==
    /\ spc = "again"
    /\ sterm = << ".", "A", " ", "." >> \/ sterm = << "A", " ", ".", "b" >>
    /\ sslug \in { << "a" >>, << "a", "-", "b" >> }

-----------------------------------------------------------------------------
(* Term annotation: annotateTerms and buildTermAnnotator of the            *)
(* single-title app.  Markup handed to the annotator is spelled character  *)
(* by character, tags included.  The markup returned is kept as the        *)
(* sequence of its pieces: text left alone, tags left alone and inserted   *)
(* spans; RenderPieces spells the string the function returns.             *)

Source101 == << "1", "0", "1" >>
Source115e == << "1", "1", "5", "e" >>

\* d.term && d.slug on an entry of defs101
Truthy101(entry) ==
    /\ entry.term # Null
    /\ entry.term[1] # <<>>
    /\ entry.slug # Null
    /\ entry.slug[1] # <<>>

\* the termDefs array annotateTerms hands to buildTermAnnotator
MergeTermDefs(l101, l115) ==
    LET kept == SelectSeq(l101, Truthy101)
    IN  [k \in 1..Len(kept) |->
            [term |-> kept[k].term[1], slug |-> kept[k].slug[1], source |-> Source101]]
        \o [k \in 1..Len(l115) |->
            [term |-> l115[k].term, slug |-> l115[k].slug, source |-> Source115e]]

\* d.term && d.slug on a TermDef
TruthyTermDef(d) == d.term # <<>> /\ d.slug # <<>>

\* Array.prototype.sort with (a, b) => b.term.length - a.term.length, which
\* is stable: records of equal length keep their order
RECURSIVE InsertByLength(_, _)
InsertByLength(sorted, x) ==
    IF sorted = <<>> THEN <<x>>
    ELSE IF Len(Head(sorted).term) >= Len(x.term)
    THEN <<Head(sorted)>> \o InsertByLength(Tail(sorted), x)
    ELSE <<x>> \o sorted

RECURSIVE SortByLength(_)
SortByLength(list) ==
    IF list = <<>> THEN <<>>
    ELSE InsertByLength(SortByLength(SubSeq(list, 1, Len(list) - 1)), list[Len(list)])

\* the terms array of buildTermAnnotator
buildTermAnnotator(termDefs) == SortByLength(SelectSeq(termDefs, TruthyTermDef))

\* infoByLower.get(key): new Map(pairs) keeps, for a key given twice, the
\* value of the last pair
InfoByLower(terms, key) ==
    LET Hits == { k \in 1..Len(terms) : ToLowerCase(terms[k].term) = key }
    IN  IF Hits = {} THEN [found |-> FALSE, slug |-> <<>>, source |-> <<>>]
        ELSE LET k == CHOOSE h \in Hits : \A g \in Hits : g <= h
             IN  [found |-> TRUE, slug |-> terms[k].slug, source |-> terms[k].source]

WordChars == LowerLetters \cup UpperLetters \cup Digits \cup {"_"}

IsWordAt(text, p) == p >= 1 /\ p <= Len(text) /\ text[p] \in WordChars

\* \b between positions p - 1 and p
WordBoundary(text, p) == IsWordAt(text, p - 1) # IsWordAt(text, p)

\* the pattern of one term matched at position pos from its j-th character,
\* with the i flag: every character of the term is a literal (the special
\* ones are escaped) except the space, which is \s+.  A run of n spaces of
\* the term takes a whole run of at least n whitespace characters: what
\* follows it in the pattern is a literal that is not whitespace, or \b.
\* The position after the match, or 0.
RECURSIVE MatchFrom(_, _, _, _)
MatchFrom(text, pos, term, j) ==
    IF j > Len(term) THEN pos
    ELSE IF term[j] = " "
    THEN LET k == RunEnd(term, j, {" "})
             e == RunEnd(text, pos, Whitespace)
         IN  IF e - pos >= k - j THEN MatchFrom(text, e, term, k) ELSE 0
    ELSE IF pos <= Len(text) /\ ToLowerChar(text[pos]) = ToLowerChar(term[j])
    THEN MatchFrom(text, pos + 1, term, j + 1)
    ELSE 0

\* \b(term)\b at position i: the position after the match, or 0
TermMatchAt(text, i, term) ==
    LET e == MatchFrom(text, i, term, 1)
    IN  IF e # 0 /\ WordBoundary(text, i) /\ WordBoundary(text, e) THEN e ELSE 0

\* the first alternative of the pattern that matches at position i, or 0
FirstAlt(text, i, terms) ==
    LET Alts == { k \in 1..Len(terms) : TermMatchAt(text, i, terms[k].term) # 0 }
    IN  IF Alts = {} THEN 0 ELSE CHOOSE k \in Alts : \A g \in Alts : k <= g

TextPiece(t) == IF t = <<>> THEN <<>> ELSE << [kind |-> "text", text |-> t] >>

\* a span around the key of the match in infoByLower, not around the match
SpanPieceOfKey(match, info) ==
    [kind |-> "span", text |-> ToLowerCase(match), slug |-> info.slug, source |-> info.source]

\* the span the callback returns: `<span class="def-term" ...>${match}</span>`
SpanPiece(match, info) ==
    [kind |-> "span", text |-> match, slug |-> info.slug, source |-> info.source]

\* part.replace(termRe, callback) from position i, with the text since
\* position from not yet emitted
RECURSIVE ReplaceTerms(_, _, _, _)
ReplaceTerms(text, i, from, terms) ==
    IF i > Len(text) THEN TextPiece(SubSeq(text, from, Len(text)))
    ELSE LET k == FirstAlt(text, i, terms)
         IN  IF k = 0 THEN ReplaceTerms(text, i + 1, from, terms)
             ELSE LET e == TermMatchAt(text, i, terms[k].term)
                      match == SubSeq(text, i, e - 1)
                      info == InfoByLower(terms, ToLowerCase(match))
                  IN  IF info.found
                      THEN TextPiece(SubSeq(text, from, i - 1))
                             \o << SpanPiece(match, info) >>
                             \o ReplaceTerms(text, e, e, terms)
                      ELSE ReplaceTerms(text, e, from, terms)

\* html.split(/(<[^>]+>)/g): the parts, text and tag in turn
RECURSIVE SplitTags(_)
SplitTags(html) ==
    LET Starts == { p \in 1..Len(html) :
                      /\ html[p] = "<"
                      /\ RunEndNot(html, p + 1, {">"}) > p + 1
                      /\ RunEndNot(html, p + 1, {">"}) <= Len(html) }
    IN  IF Starts = {} THEN << html >>
        ELSE LET p == CHOOSE q \in Starts : \A r \in Starts : q <= r
                 e == RunEndNot(html, p + 1, {">"})
             IN  << SubSeq(html, 1, p - 1), SubSeq(html, p, e) >> \o SplitTags(Slice(html, e + 1))

\* the function returned by buildTermAnnotator, applied to html
annotate(terms, html) ==
    IF terms = <<>> THEN TextPiece(html)
    ELSE LET parts == SplitTags(html)
         IN  Flatten([k \in 1..Len(parts) |->
                 IF k % 2 = 0
                 THEN << [kind |-> "tag", text |-> parts[k]] >>
                 ELSE ReplaceTerms(parts[k], 1, 1, terms)])

\* `<span class="def-term" data-slug="${slug}" data-def-source="${source}">`
DefTermOpen(slug, source) ==
    << "<", "s", "p", "a", "n", " ", "c", "l", "a", "s", "s", "=", "\"", "d", "e", "f", "-",
       "t", "e", "r", "m", "\"", " ", "d", "a", "t", "a", "-", "s", "l", "u", "g", "=", "\"" >>
      \o slug
      \o << "\"", " ", "d", "a", "t", "a", "-", "d", "e", "f", "-", "s", "o", "u", "r", "c",
            "e", "=", "\"" >>
      \o source \o << "\"", ">" >>

DefTermClose == << "<", "/", "s", "p", "a", "n", ">" >>

\* the string the pieces spell
RenderPieces(pieces) ==
    Flatten([k \in 1..Len(pieces) |->
        IF pieces[k].kind = "span"
        THEN DefTermOpen(pieces[k].slug, pieces[k].source) \o pieces[k].text \o DefTermClose
        ELSE pieces[k].text])

-----------------------------------------------------------------------------
(* Inputs of the annotator specification                                   *)

MaxRecords == 2

TermWork == << "w", "o", "r", "k" >>
TermWorkCap == << "W", "o", "r", "k" >>
TermJointWork == << "j", "o", "i", "n", "t", " ", "w", "o", "r", "k" >>
TermAB == << "a", " ", "b" >>
TermBAB == << "b", " ", "a", " ", "b" >>
TermDot == << "." >>
TermADashB == << "a", "-", "b" >>

AnnTerms == { TermWork, TermWorkCap, TermJointWork, TermAB, TermBAB, TermDot, TermADashB }

\* the entry parseSec101Defs returns for an indent1 paragraph that defines t
Rec101(t) == SingleSec101Entry("indent1", <<LDQUO>> \o t \o <<RDQUO, " ", "x">>)

\* the record parseSec115eDefs returns for a block that defines t
Rec115e(t) ==
    [blockIndex |-> 1, term |-> t, slug |-> Slugify(t),
     anchor |-> SubsectionE \o Des1, indent |-> 2]

Recs101 == { Rec101(t) : t \in AnnTerms } \cup { SingleSec101Entry("indent2", BodyText) }

Recs115e == { Rec115e(t) : t \in AnnTerms }

SeqsUpTo(S, n) == UNION { [1..m -> S] : m \in 0..n }

AnnHtmls ==
    { << "a", " ", "w", "o", "r", "k", "." >>,
      << "<", "a", " ", "t", "i", "t", "l", "e", "=", "\"", "x", " ", ">", " ", "w", "o", "r",
         "k", "\"", ">", "y", "<", "/", "a", ">" >>,
      << "<", "a", " ", "t", "i", "t", "l", "e", "=", "\"", "w", "o", "r", "k", "\"", ">",
         "W", "o", "r", "k", "<", "/", "a", ">" >>,
      << "a", " ", "b", " ", "a", " ", "b" >>,
      << "a", " ", "j", "o", "i", "n", "t", " ", "w", "o", "r", "k" >>,
      << "W", "o", "r", "k", "\t", "a", " ", " ", "b" >>,
      << "n", "e", "t", "w", "o", "r", "k" >> }

-----------------------------------------------------------------------------
(* Annotator specification: the annotator is built from the two parsed     *)
(* lists, then applied to a fragment                                       *)

InitAnn ==
    /\ CodecIdle
    /\ LoopIdle
    /\ BesideAnnIdle
    /\ a101 \in SeqsUpTo(Recs101, MaxRecords)
    /\ a115 \in SeqsUpTo(Recs115e, MaxRecords)
    /\ Len(a101) + Len(a115) <= MaxRecords
    /\ aterms = <<>>
    /\ ahtml = <<>>
    /\ aout = <<>>
    /\ apc = "merge"

\* the useMemo callback of annotateTerms
AnnBuild ==
    /\ apc = "merge"
    /\ aterms' = buildTermAnnotator(MergeTermDefs(a101, a115))
    /\ apc' = "built"
    /\ UNCHANGED <<a101, a115, ahtml, aout>>
    /\ UNCHANGED <<codecVars, loopVars, besideAnnVars>>

\* annotateTerms(html)
AnnAnnotate ==
    /\ apc = "built"
    /\ \E html \in AnnHtmls :
        /\ ahtml' = html
        /\ aout' = annotate(aterms, html)
    /\ apc' = "annotated"
    /\ UNCHANGED <<a101, a115, aterms>>
    /\ UNCHANGED <<codecVars, loopVars, besideAnnVars>>

NextAnn == AnnBuild \/ AnnAnnotate

SpecAnn == InitAnn /\ [][NextAnn]_vars

\* the first and the last position of piece k in the text the pieces spell
PieceStart(pieces, k) == 1 + Len(Flatten([j \in 1..(k - 1) |-> pieces[j].text]))
PieceEnd(pieces, k) == PieceStart(pieces, k) + Len(pieces[k].text) - 1

\* the text of the pieces without the inserted tags
PiecesText(pieces) == Flatten([k \in 1..Len(pieces) |-> pieces[k].text])

\* the position of the '>' that ends a tag, the scan being at position p
\* and inside a quoted attribute value or not; 0 when the tag never ends
RECURSIVE TagEnd(_, _, _)
TagEnd(html, p, quoted) ==
    IF p > Len(html) THEN 0
    ELSE IF html[p] = "\"" THEN TagEnd(html, p + 1, ~quoted)
    ELSE IF html[p] = ">" /\ ~quoted THEN p
    ELSE TagEnd(html, p + 1, quoted)

\* the tags of a fragment from position p on, as <<first, last>> positions;
\* a '>' inside a quoted attribute value does not end the tag
RECURSIVE TagsFrom(_, _)
TagsFrom(html, p) ==
    IF p > Len(html) THEN {}
    ELSE IF html[p] = "<" /\ TagEnd(html, p + 1, FALSE) # 0
    THEN { <<p, TagEnd(html, p + 1, FALSE)>> } \cup TagsFrom(html, TagEnd(html, p + 1, FALSE) + 1)
    ELSE TagsFrom(html, p + 1)

InputTags(html) == TagsFrom(html, 1)

SpanPieces(pieces) == { k \in 1..Len(pieces) : pieces[k].kind = "span" }

\* pieces k and the range a..b have a position in common
Meets(pieces, k, a, b) == PieceStart(pieces, k) <= b /\ PieceEnd(pieces, k) >= a

\* C13: every tag of the input is in the output unchanged, and no inserted
\* span begins or ends inside a tag, also when an attribute value contains
\* a defined term or a '>'.
C13_TagsUntouched ==
    apc = "annotated" =>
        \A tag \in InputTags(ahtml) :
            /\ Len(PiecesText(aout)) >= tag[2]
            /\ SubSeq(PiecesText(aout), tag[1], tag[2]) = SubSeq(ahtml, tag[1], tag[2])
            /\ \A k \in SpanPieces(aout) : ~Meets(aout, k, tag[1], tag[2])

\* s is a proper substring of l
IsSubstring(s, l) ==
    /\ Len(s) < Len(l)
    /\ \E i \in 1..(Len(l) - Len(s) + 1) : SubSeq(l, i, i + Len(s) - 1) = s

\* the positions where the phrase stands in the text of the fragment, in
\* any case, outside every tag and between word edges
Occurrences(html, phrase) ==
    { i \in 1..(Len(html) - Len(phrase) + 1) :
        /\ ToLowerCase(SubSeq(html, i, i + Len(phrase) - 1)) = ToLowerCase(phrase)
        /\ WordBoundary(html, i)
        /\ WordBoundary(html, i + Len(phrase))
        /\ \A tag \in InputTags(html) : i + Len(phrase) - 1 < tag[1] \/ i > tag[2] }

\* exactly one span covers the range a..b, and no other span meets it
OneSpanCovers(pieces, a, b) ==
    /\ \E k \in SpanPieces(pieces) : PieceStart(pieces, k) = a /\ PieceEnd(pieces, k) = b
    /\ \A k \in SpanPieces(pieces) :
        Meets(pieces, k, a, b) => PieceStart(pieces, k) = a /\ PieceEnd(pieces, k) = b

\* C14: with two terms of which one is a substring of the other and no
\* other term, every occurrence of the longer phrase is covered by exactly
\* one span, and no span of the shorter term is nested in it or overlaps it.
C14_LongestMatchWins ==
    apc = "annotated" =>
        \A i, j \in 1..Len(aterms) :
            ( /\ IsSubstring(aterms[i].term, aterms[j].term)
              /\ \A k \in 1..Len(aterms) : aterms[k].term \in {aterms[i].term, aterms[j].term} )
            => \A o \in Occurrences(ahtml, aterms[j].term) :
                   OneSpanCovers(aout, o, o + Len(aterms[j].term) - 1)

-----------------------------------------------------------------------------
(* Cross-reference clicks: handleUslmClick of the single-title app.        *)
(* An href is spelled character by character; in the URL handed to         *)
(* window.open the fixed prefix is one element.                            *)

UsPrefix == << "/", "u", "s", "/" >>
UscT17Prefix == << "/", "u", "s", "/", "u", "s", "c", "/", "t", "1", "7", "/", "s" >>
PlPrefix == << "/", "u", "s", "/", "p", "l", "/" >>
StatPrefix == << "/", "u", "s", "/", "s", "t", "a", "t", "/" >>

PlawBase == "https://www.govinfo.gov/link/plaw/"
StatuteBase == "https://www.govinfo.gov/link/statute/"

\* /^\/us\/usc\/t\d+\/s(\d+[A-Z0-9]*)/i: the pattern with any title number
UscSectionAnyTitle(href) ==
    LET head == << "/", "u", "s", "/", "u", "s", "c", "/", "t" >>
        t == RunEnd(href, Len(head) + 1, Digits)
        d == RunEnd(href, t + 2, Digits)
    IN  IF /\ StartsWithAt(ToLowerCase(href), 1, head)
           /\ t > Len(head) + 1
           /\ StartsWithAt(ToLowerCase(href), t, << "/", "s" >>)
           /\ d > t + 2
        THEN SubSeq(href, t + 2, RunEnd(href, d, UpperLetters \cup LowerLetters \cup Digits) - 1)
        ELSE <<>>

\* href.match(/^\/us\/usc\/t17\/s(\d+[A-Z0-9]*)/i): the captured section
\* number, or the empty sequence when the pattern does not match
UscSection(href) ==
    LET from == Len(UscT17Prefix) + 1
        d == RunEnd(href, from, Digits)
    IN  IF StartsWithAt(ToLowerCase(href), 1, UscT17Prefix) /\ d > from
        THEN SubSeq(href, from, RunEnd(href, d, UpperLetters \cup LowerLetters \cup Digits) - 1)
        ELSE <<>>

\* href.match(/^prefix(\d+)\/(\d+)/): the two captured numbers, or a pair of
\* empty sequences when the pattern does not match
TwoNumbers(href, prefix) ==
    LET from == Len(prefix) + 1
        a == RunEnd(href, from, Digits)
        b == RunEnd(href, a + 1, Digits)
    IN  IF /\ StartsWithAt(href, 1, prefix)
           /\ a > from
           /\ a <= Len(href)
           /\ href[a] = "/"
           /\ b > a + 1
        THEN << SubSeq(href, from, a - 1), SubSeq(href, a + 1, b - 1) >>
        ELSE << <<>>, <<>> >>

\* `https://www.govinfo.gov/link/plaw/${congress}/public/${law}`
PlawUrl(congress, law) ==
    <<PlawBase>> \o congress \o << "/", "p", "u", "b", "l", "i", "c", "/" >> \o law

\* `https://www.govinfo.gov/link/statute/${volume}/${page}`
StatuteUrl(volume, page) == <<StatuteBase>> \o volume \o << "/" >> \o page

WindowOpen(url) == [url |-> url, target |-> "_blank", features |-> "noopener,noreferrer"]

\* handleUslmClick(e, onNavigate): whether preventDefault was called, the
\* calls of onNavigate and the calls of window.open
handleUslmClick(e) ==
    LET quiet == [prevented |-> FALSE, navs |-> <<>>, opens |-> <<>>]
    IN  IF ~e.inAnchor THEN quiet
        ELSE IF e.href = Null \/ e.href[1] = <<>> \/ ~StartsWithAt(e.href[1], 1, UsPrefix)
        THEN quiet
        ELSE LET href == e.href[1]
                 pl == TwoNumbers(href, PlPrefix)
                 stat == TwoNumbers(href, StatPrefix)
             IN  IF UscSection(href) # <<>>
                 THEN [prevented |-> TRUE,
                       navs |-> << [type |-> "section", sectionNum |-> UscSection(href)] >>,
                       opens |-> <<>>]
                 ELSE IF pl[1] # <<>>
                 THEN [prevented |-> TRUE, navs |-> <<>>,
                       opens |-> << WindowOpen(PlawUrl(pl[1], pl[2])) >>]
                 ELSE IF stat[1] # <<>>
                 THEN [prevented |-> TRUE, navs |-> <<>>,
                       opens |-> << WindowOpen(StatuteUrl(stat[1], stat[2])) >>]
                 ELSE [prevented |-> TRUE, navs |-> <<>>, opens |-> <<>>]

-----------------------------------------------------------------------------
(* Inputs of the click specification                                       *)

HrefNumbers == { << "9", "4" >>, << "5", "5", "3" >>, << "1" >> }

HrefSections == { << "1", "0", "6" >>, << "1", "0", "6", "A" >>, << "8", "0", "1" >> }

HrefTails == { <<>>, << "/", "a" >>, << "/", "2" >> }

UscHrefs == { UscT17Prefix \o n \o t : n \in HrefSections, t \in HrefTails }

PlHrefs == { PlPrefix \o a \o <<"/">> \o b \o t :
               a \in HrefNumbers, b \in HrefNumbers, t \in HrefTails }

StatHrefs == { StatPrefix \o a \o <<"/">> \o b \o t :
                 a \in HrefNumbers, b \in HrefNumbers, t \in HrefTails }

\* other identifiers under /us/: another title, a title without a section,
\* a section without a number, a public law without a law number, an act
OtherUsHrefs ==
    { << "/", "u", "s", "/" >>,
      << "/", "u", "s", "/", "u", "s", "c", "/", "t", "1", "8", "/", "s", "2", "3", "1", "9" >>,
      << "/", "u", "s", "/", "u", "s", "c", "/", "t", "1", "7", "0", "/", "s", "1" >>,
      << "/", "u", "s", "/", "u", "s", "c", "/", "t", "1", "7" >>,
      << "/", "u", "s", "/", "u", "s", "c", "/", "t", "1", "7", "/", "s", "x" >>,
      << "/", "u", "s", "/", "p", "l", "/", "9", "4" >>,
      << "/", "u", "s", "/", "p", "l", "/", "9", "4", "/" >>,
      << "/", "u", "s", "/", "s", "t", "a", "t", "/", "x", "/", "1" >>,
      << "/", "u", "s", "/", "a", "c", "t", "/", "1", "9", "0", "9" >> }

\* hrefs that are not USLM identifiers
ForeignHrefs ==
    { <<>>,
      << "#", "x" >>,
      << "/", "u", "s" >>,
      << "h", "t", "t", "p", "s", ":", "/", "/", "x", "/", "u", "s", "/", "p", "l", "/", "1",
         "/", "1" >>,
      << "u", "s", "/", "p", "l", "/", "1", "/", "1" >> }

Hrefs == UscHrefs \cup PlHrefs \cup StatHrefs \cup OtherUsHrefs \cup ForeignHrefs

\* a click outside every anchor, inside an anchor without href, or inside
\* an anchor with an href
Clicks ==
    { [inAnchor |-> FALSE, href |-> Null], [inAnchor |-> TRUE, href |-> Null] }
      \cup { [inAnchor |-> TRUE, href |-> Some(h)] : h \in Hrefs }

-----------------------------------------------------------------------------
(* Click specification: one click is handled                               *)

InitClick ==
    /\ CodecIdle
    /\ LoopIdle
    /\ BesideClickIdle
    /\ click \in Clicks
    /\ prevented = FALSE
    /\ navs = <<>>
    /\ opens = <<>>
    /\ kpc = "click"

UslmClick ==
    /\ kpc = "click"
    /\ LET r == handleUslmClick(click)
       IN  /\ prevented' = r.prevented
           /\ navs' = r.navs
           /\ opens' = r.opens
    /\ kpc' = "handled"
    /\ UNCHANGED click
    /\ UNCHANGED <<codecVars, loopVars, besideClickVars>>

NextClick == UslmClick

SpecClick == InitClick /\ [][NextClick]_vars

\* the href of the click when it is inside an anchor whose href starts
\* with '/us/', the empty sequence otherwise
UsHrefOf(e) ==
    IF e.inAnchor /\ e.href # Null /\ Len(e.href[1]) >= 4 /\ SubSeq(e.href[1], 1, 4) = UsPrefix
    THEN e.href[1] ELSE <<>>

\* C16: a click inside an anchor whose href starts with '/us/' always
\* suppresses the default navigation and does exactly one of: navigate in
\* the app to the section of a title 17 reference, open the public-law URL,
\* open the statute URL, or nothing for any other shape; any other click
\* does nothing and suppresses nothing.
C16_ResolveByShape ==
    kpc = "handled" =>
        LET href == UsHrefOf(click)
        IN  IF href = <<>>
            THEN ~prevented /\ navs = <<>> /\ opens = <<>>
            ELSE /\ prevented
                 /\ Len(navs) + Len(opens) <= 1
                 /\ \A n \in HrefSections, t \in HrefTails :
                        href = UscT17Prefix \o n \o t =>
                            /\ navs = << [type |-> "section", sectionNum |-> n] >>
                            /\ opens = <<>>
                 /\ \A a, b \in HrefNumbers, t \in HrefTails :
                        /\ href = PlPrefix \o a \o <<"/">> \o b \o t =>
                            /\ navs = <<>>
                            /\ opens = << [url |-> <<PlawBase>> \o a
                                                     \o << "/", "p", "u", "b", "l", "i", "c", "/" >>
                                                     \o b,
                                           target |-> "_blank",
                                           features |-> "noopener,noreferrer"] >>
                        /\ href = StatPrefix \o a \o <<"/">> \o b \o t =>
                            /\ navs = <<>>
                            /\ opens = << [url |-> <<StatuteBase>> \o a \o <<"/">> \o b,
                                           target |-> "_blank",
                                           features |-> "noopener,noreferrer"] >>
                 /\ href \in OtherUsHrefs => navs = <<>> /\ opens = <<>>

\* a title 17 reference has been resolved in the app
C16_Witness ==
    /\ kpc = "handled"
    /\ click = [inAnchor |-> TRUE,
                href |-> Some(UscT17Prefix \o << "1", "0", "6", "A", "/", "a" >>)]
    /\ prevented
    /\ Len(navs) = 1

-----------------------------------------------------------------------------
(* Loading of section data: fetchTitle, useTitleSections and SectionView   *)
(* of the multi-title app; fetchSections, useSections and SectionView of   *)
(* the single-title app, whose one cache is the key "17" here.             *)
(*                                                                         *)
(* The state of the hook is "null", "error" or a title, which stands for   *)
(* the sections map of that title.  A promise reaction runs in the task    *)
(* that settles its promise, so settling a request and the reactions       *)
(* registered on it are one step; a navigation is one step with the render *)
(* it causes and the effects that render schedules.                        *)

SingleKey == "17"

TitleKeys == IF router = "single" THEN {SingleKey} ELSE {"17", "18"}

AskedSections == {"101", "102", "999"}

\* the section numbers each data file has
TitleData(t) == IF t = "17" THEN {"101", "102"} ELSE {"101"}

SectionViews == IF router = "single"
                THEN { [type |-> "section", titleNum |-> SingleKey, sectionNum |-> n] :
                         n \in AskedSections }
                ELSE { [type |-> "section", titleNum |-> t, sectionNum |-> n] :
                         t \in {"17", "18"}, n \in AskedSections }

LoadViews == { [type |-> "home"] } \cup SectionViews

\* fetchTitle(t), fetchSections(): the promises and the request counters
\* after the call
FetchPromises(cache, promises, t) ==
    IF t \in cache \/ promises[t] # "none" THEN promises
    ELSE [promises EXCEPT ![t] = "pending"]

\* the request counters when a request is issued for every call that finds
\* no cached data, a pending promise notwithstanding
FetchRequestsNoDedup(cache, promises, reqs, t) ==
    IF t \in cache THEN reqs ELSE [reqs EXCEPT ![t] = @ + 1]

FetchRequests(cache, promises, reqs, t) ==
    IF t \in cache \/ promises[t] # "none" THEN reqs
    ELSE [reqs EXCEPT ![t] = @ + 1]

\* the effect of useTitleSections for title t: setSections(cached or null),
\* then the reaction on the promise fetchTitle returns, which runs at once
\* when that promise is settled already
MultiHookState(cache, promises, t) ==
    IF t \in cache THEN t
    ELSE IF promises[t] = "rejected" THEN "error"
    ELSE "null"

MultiHookSubs(cache, promises, subs, t) ==
    IF t \notin cache /\ promises[t] # "rejected" THEN subs \cup {t} ELSE subs

\* useState(sectionsCache) of useSections at the mount
SingleHookState(cache) == IF SingleKey \in cache THEN SingleKey ELSE "null"

\* the effect of useSections: if (!sectionsCache) fetchSections().then(...);
\* a rejected promise has no rejection handler
SingleHookSubs(cache, promises) ==
    IF SingleKey \notin cache /\ promises[SingleKey] # "rejected" THEN {SingleKey} ELSE {}

\* what SectionView renders
Display ==
    IF vview.type # "section" THEN "none"
    ELSE IF vsections = "null" THEN "loading"
    ELSE IF vsections = "error" THEN "error"
    ELSE IF vview.sectionNum \in TitleData(vsections) THEN "content"
    ELSE "notfound"

\* the hook and the caches after SectionView is mounted for view v, or
\* after its title changed to that of v, with the reactions subs it keeps
HookRuns(v, subs) ==
    LET t == v.titleNum
    IN  /\ vsections' = IF router = "single" THEN SingleHookState(titleCache)
                        ELSE MultiHookState(titleCache, titlePromises, t)
        /\ vsubs' = IF router = "single" THEN SingleHookSubs(titleCache, titlePromises)
                    ELSE MultiHookSubs(titleCache, titlePromises, subs, t)
        /\ titlePromises' = FetchPromises(titleCache, titlePromises, t)
        /\ requests' = FetchRequests(titleCache, titlePromises, requests, t)

InitView ==
    /\ router \in {"multi", "single"}
    /\ target = NoTarget
    /\ addr = <<>>
    /\ decoded = Home
    /\ cpc = "idle"
    /\ LoopIdle
    /\ BesideViewIdle
    /\ vview \in LoadViews
    /\ vsections = "null"
    /\ titleCache = {}
    /\ IF vview.type = "section"
       THEN /\ vsubs = {vview.titleNum}
            /\ titlePromises = [t \in TitleKeys |->
                                  IF t = vview.titleNum THEN "pending" ELSE "none"]
            /\ requests = [t \in TitleKeys |-> IF t = vview.titleNum THEN 1 ELSE 0]
       ELSE /\ vsubs = {}
            /\ titlePromises = [t \in TitleKeys |-> "none"]
            /\ requests = [t \in TitleKeys |-> 0]
    /\ ptimer = IF router = "single" THEN SingleKey
                ELSE IF vview.type = "home" THEN "none" ELSE vview.titleNum

\* setView(v) with the render and the effects it causes: SectionView is
\* unmounted, mounted (a new hook, whose effect runs), kept with a new
\* title (the effect of the multi-title hook runs again) or kept as it is;
\* in the multi-title app the prefetch timer is re-armed
ViewNavigate ==
    \E v \in LoadViews :
        /\ vview' = v
        /\ IF v.type # "section"
           THEN /\ vsections' = "null"
                /\ vsubs' = {}
                /\ UNCHANGED <<titlePromises, requests>>
           ELSE IF vview.type # "section"
           THEN HookRuns(v, {})
           ELSE IF vview.titleNum # v.titleNum
           THEN HookRuns(v, vsubs)
           ELSE UNCHANGED <<vsections, vsubs, titlePromises, requests>>
        /\ ptimer' = IF router = "single" THEN ptimer
                     ELSE IF v.type = "home" THEN "none" ELSE v.titleNum
        /\ UNCHANGED titleCache
        /\ UNCHANGED <<codecVars, loopVars, besideViewVars>>

\* the prefetch timer fires
PrefetchFire ==
    /\ ptimer # "none"
    /\ titlePromises' = FetchPromises(titleCache, titlePromises, ptimer)
    /\ requests' = FetchRequests(titleCache, titlePromises, requests, ptimer)
    /\ ptimer' = "none"
    /\ UNCHANGED <<vview, vsections, vsubs, titleCache>>
    /\ UNCHANGED <<codecVars, loopVars, besideViewVars>>

\* a request succeeds: the data is cached and handed to the reactions
FetchOk ==
    \E t \in TitleKeys :
        /\ titlePromises[t] = "pending"
        /\ titleCache' = titleCache \cup {t}
        /\ titlePromises' = [titlePromises EXCEPT ![t] = "fulfilled"]
        /\ vsections' = IF t \in vsubs THEN t ELSE vsections
        /\ vsubs' = vsubs \ {t}
        /\ UNCHANGED <<vview, requests, ptimer>>
        /\ UNCHANGED <<codecVars, loopVars, besideViewVars>>

\* a request fails: the promise is rejected and stays in titlePromises; the
\* multi-title hook catches the rejection, the single-title hook does not
FetchFail ==
    \E t \in TitleKeys :
        /\ titlePromises[t] = "pending"
        /\ titlePromises' = [titlePromises EXCEPT ![t] = "rejected"]
        /\ vsections' = IF t \in vsubs /\ router = "multi" THEN "error" ELSE vsections
        /\ vsubs' = vsubs \ {t}
        /\ UNCHANGED <<vview, titleCache, requests, ptimer>>
        /\ UNCHANGED <<codecVars, loopVars, besideViewVars>>

NextView ==
    \/ ViewNavigate
    \/ PrefetchFire
    \/ FetchOk
    \/ FetchFail

SpecView == InitView /\ [][NextView]_vars

\* C17: 'not found' is shown only when the map of the requested title is
\* loaded and lacks the requested section, loading is shown only while that
\* map is not loaded, and loading is what is shown while the request for
\* that map is in flight.
C17_NotFoundOnlyWhenLoaded ==
    vview.type = "section" =>
        /\ Display = "notfound" =>
             /\ vview.titleNum \in titleCache
             /\ vview.sectionNum \notin TitleData(vview.titleNum)
        /\ Display = "loading" => vview.titleNum \notin titleCache
        /\ (vview.titleNum \notin titleCache /\ titlePromises[vview.titleNum] = "pending")
             => Display = "loading"

-----------------------------------------------------------------------------
(* The path builder of the multi-title app (src/uscode/src/App.tsx): the   *)
(* stack is an array of designators indexed by depth                       *)

\* block.html.match(/<span class="num">(.*?)<\/span>/): the first designator
\* span anywhere in the markup whose text has no line terminator
MultiNumMatch(html) ==
    LET Close(p) == RunEndNot(html, p + 1, {SpanClose} \cup LineTerminators)
        Starts == { p \in 1..Len(html) :
                      /\ html[p] = NumOpen
                      /\ Close(p) <= Len(html)
                      /\ html[Close(p)] = SpanClose }
    IN  IF Starts = {} THEN [matched |-> FALSE, num |-> <<>>]
        ELSE LET p == CHOOSE q \in Starts : \A r \in Starts : q <= r
             IN  [matched |-> TRUE, num |-> SubSeq(html, p + 1, Close(p) - 1)]

\* stack.length = depth; stack[depth] = num, for depth >= 0: the array is
\* cut or padded with holes to depth elements, then num is stored
SetAtDepth(stk, depth, num) ==
    [k \in 1..depth |-> IF k <= Len(stk) THEN stk[k] ELSE <<>>] \o <<num>>

\* one iteration of the for loop of the multi-title buildParaMetaMap;
\* stack.length = depth throws a RangeError when depth is negative
MultiParaStep(stk, map, block, i, secNum) ==
    LET m == MultiNumMatch(block.html)
        depth == block.indent - 1
    IN  IF block.type \notin STRUCTURAL_TYPES \/ ~m.matched
        THEN [stack |-> stk, map |-> map, threw |-> FALSE]
        ELSE IF depth < 0
        THEN [stack |-> stk, map |-> map, threw |-> TRUE]
        ELSE LET set == SetAtDepth(stk, depth, m.num)
                 path == Flatten(set)
             IN  [stack |-> set,
                  map |-> (i :> [path |-> path, id |-> ParaId(secNum, path)]) @@ map,
                  threw |-> FALSE]

MaxMultiBlocks == 3

\* a paragraph with an ordinal designator, as in 12 U.S.C. 24 ("First.",
\* "Second.", ...)
OrdinalBlock ==
    [type |-> "paragraph", indent |-> 1,
     html |-> <<NumOpen, "F", "i", "r", "s", "t", ".", SpanClose>> \o BodyText]

MultiParaBlocks == ParaBlocks \cup {OrdinalBlock}

MultiParaContents == UNION { [1..n -> MultiParaBlocks] : n \in 1..MaxMultiBlocks }

InitMultiPara ==
    /\ CodecIdle
    /\ ExtIdle
    /\ content \in MultiParaContents
    /\ sectionNum = <<"1", "0", "6">>
    /\ idx = 0
    /\ stack = <<>>
    /\ pmap = <<>>
    /\ inE = FALSE
    /\ defs = <<>>
    /\ lpc = "mpara"

\* one iteration of the loop that completes
MultiParaVisit ==
    /\ lpc = "mpara"
    /\ idx < Len(content)
    /\ LET r == MultiParaStep(stack, pmap, content[idx + 1], idx, sectionNum)
       IN  /\ ~r.threw
           /\ stack' = r.stack
           /\ pmap' = r.map
    /\ idx' = idx + 1
    /\ UNCHANGED <<content, sectionNum, inE, defs, lpc>>
    /\ UNCHANGED codecVars
    /\ UNCHANGED extVars

\* one iteration of the loop that throws: the builder is left without a map
MultiParaThrow ==
    /\ lpc = "mpara"
    /\ idx < Len(content)
    /\ MultiParaStep(stack, pmap, content[idx + 1], idx, sectionNum).threw
    /\ lpc' = "threw"
    /\ UNCHANGED <<content, sectionNum, idx, stack, pmap, inE, defs>>
    /\ UNCHANGED codecVars
    /\ UNCHANGED extVars

\* return map
MultiParaReturn ==
    /\ lpc = "mpara"
    /\ idx = Len(content)
    /\ lpc' = "done"
    /\ UNCHANGED <<content, sectionNum, idx, stack, pmap, inE, defs>>
    /\ UNCHANGED codecVars
    /\ UNCHANGED extVars

NextMultiPara == MultiParaVisit \/ MultiParaThrow \/ MultiParaReturn

SpecMultiPara == InitMultiPara /\ [][NextMultiPara]_vars

\* C18: in the multi-title builder a designated structural block at indent 0
\* gets an entry whose path is its own designator, and the builder does not
\* raise on a sequence that starts with such a block; subsection '(b)' at
\* indent 0 followed by paragraph '(1)' at indent 1 gives '(b)' and '(b)(1)'.
C18_DepthZeroSingleToken ==
    (IsDesignated(content[1]) /\ content[1].indent = 0) =>
        /\ lpc # "threw"
        /\ idx >= 1 => (0 \in DOMAIN pmap /\ pmap[0].path = TokenOf(content[1]))
        /\ (idx >= 2 /\ content[1] = SubsectionB /\ content[2] = Paragraph1) =>
             /\ pmap[0].path = DesB
             /\ 1 \in DOMAIN pmap
             /\ pmap[1].path = DesB \o Des1

-----------------------------------------------------------------------------
(* Scan boundaries of parseSec115eDefs (specification SpecDefs)            *)

\* the block starts subsection (e)
StartsSubsectionE(b) ==
    /\ b.type = "subsection"
    /\ BeginsWithDesignatorSpan(b.html)
    /\ TokenOf(b) = SubsectionE

\* a structural block at the level of the subsection or above it
IsBoundary(b) == IsStructuralType(b) /\ b.indent <= 1

\* C20: every record of parseSec115eDefs refers to a block at indent 2 that
\* lies after the block that starts subsection (e) with no structural block
\* of indent 1 or less in between, and the anchor of a record whose block
\* begins with a designator span is '(e)' followed by that designator.
C20_ScanBoundaries ==
    \A k \in 1..Len(defs) :
        LET b == defs[k].blockIndex + 1
        IN  /\ content[b].indent = 2
            /\ \E e \in 1..(b - 1) :
                /\ StartsSubsectionE(content[e])
                /\ \A m \in (e + 1)..(b - 1) : ~IsBoundary(content[m])
            /\ BeginsWithDesignatorSpan(content[b].html) =>
                 defs[k].anchor = SubsectionE \o TokenOf(content[b])

-----------------------------------------------------------------------------
(* Further annotator claims (specification SpecAnn)                        *)

\* C21: with one defined term, every occurrence of it in the text outside
\* the tags, between word edges, in any case and with any run of whitespace
\* in place of each space of the term, is covered by one span that carries
\* the slug and the source of the term.
C21_EveryOccurrenceWrapped ==
    (apc = "annotated" /\ Len(aterms) = 1) =>
        \A i \in 1..Len(ahtml) :
            LET e == TermMatchAt(ahtml, i, aterms[1].term)
            IN  ( /\ e # 0
                  /\ \A tag \in InputTags(ahtml) : e - 1 < tag[1] \/ i > tag[2] )
                => \E k \in SpanPieces(aout) :
                       /\ PieceStart(aout, k) = i
                       /\ PieceEnd(aout, k) = e - 1
                       /\ aout[k].slug = aterms[1].slug
                       /\ aout[k].source = aterms[1].source

-----------------------------------------------------------------------------
(* Further loading claims (specification SpecView)                         *)

\* C22: in the multi-title app the hook of a section view never holds the
\* result of another title: its state is null, the error of the requested
\* title or the map of the requested title, and once the request of the
\* requested title has succeeded it is that title's map.
C22_StaleResultsDiscarded ==
    (router = "multi" /\ vview.type = "section") =>
        /\ vsections \in {"null", "error", vview.titleNum}
        /\ vsections = "error" => titlePromises[vview.titleNum] = "rejected"
        /\ vview.titleNum \in titleCache => vsections = vview.titleNum

\* at most one request for each key; the map a hook holds is the cached one
OneRequestPerKey ==
    /\ \A t \in DOMAIN requests : requests[t] <= 1
    /\ \A t \in DOMAIN requests : (requests[t] = 1) = (titlePromises[t] # "none")
    /\ \A t \in titleCache : titlePromises[t] = "fulfilled"
    /\ vsections \notin {"null", "error"} => vsections \in titleCache

\* C23: under every interleaving of the calls of fetchTitle (fetchSections)
\* from the prefetch timer and the hooks, at most one request is issued for
\* each key, every caller gets the cached data of the key, and a key stored
\* in the cache is never removed.
C23_FetchOnceNeverInvalidate ==
    /\ []OneRequestPerKey
    /\ [][titleCache \subseteq titleCache']_vars

\* both keys of the multi-title app were asked for by hooks and timers and
\* are cached, each after one request
C23_Witness ==
    /\ router = "multi"
    /\ titleCache = {"17", "18"}
    /\ requests = [t \in {"17", "18"} |-> 1]
    /\ vview.type = "section"
    /\ vsections = vview.titleNum
    /\ ptimer = "none"

-----------------------------------------------------------------------------
(* NotesPanel (both apps): the loop that merges heading-only notes.  The   *)
(* strings of a note are only tested for emptiness and copied, so they are *)
(* TLA+ strings here, "" being the empty string.                           *)

TOPIC_HEADING ==
    [ historicalAndRevision |-> "Historical and Revision Notes",
      amendments |-> "Amendments",
      effectiveDateOfAmendment |-> "Effective Date of Amendment",
      editorialNotes |-> "Editorial Notes",
      statutoryNotes |-> "Statutory Notes",
      referencesInText |-> "References in Text",
      shortTitleOfAmendment |-> "Short Title",
      effectiveDate |-> "Effective Date",
      priorProvisions |-> "Prior Provisions",
      separability |-> "Separability",
      execDoc |-> "Executive Document",
      removalDescription |-> "Removal Description",
      definitions |-> "Definitions",
      savings |-> "Savings Provisions",
      constitutionality |-> "Constitutionality",
      codification |-> "Codification",
      executiveOrder |-> "Executive Order" ]

\* a || b on strings
OrElse(a, b) == IF a # "" THEN a ELSE b

\* note.heading || TOPIC_HEADING[note.topic] || ''
NoteHeading(note) ==
    OrElse(note.heading,
           IF note.topic \in DOMAIN TOPIC_HEADING THEN TOPIC_HEADING[note.topic] ELSE "")

\* one iteration of the loop over the notes: [pendingHeader, rendered]
NoteStep(note, pending, out) ==
    LET heading == NoteHeading(note)
    IN  IF note.html = ""
        THEN [pendingHeader |-> heading, rendered |-> out]
        ELSE [pendingHeader |-> "",
              rendered |-> Append(out, [heading |-> OrElse(pending, heading),
                                        isHeader |-> pending # "",
                                        html |-> note.html])]

\* after the loop: a pending header with no following body is still shown
NoteTail(pending, out) ==
    IF pending # ""
    THEN Append(out, [heading |-> pending, isHeader |-> FALSE, html |-> ""])
    ELSE out

MaxNotes == 3

NotePool ==
    { [topic |-> "editorialNotes", heading |-> "Editorial Notes", html |-> ""],
      [topic |-> "amendments", heading |-> "", html |-> ""],
      [topic |-> "misc", heading |-> "", html |-> ""],
      [topic |-> "amendments", heading |-> "1998 Amendment", html |-> "<p>x</p>"],
      [topic |-> "effectiveDate", heading |-> "", html |-> "<p>y</p>"],
      [topic |-> "misc", heading |-> "", html |-> "<p>z</p>"] }

NoteLists == UNION { [1..n -> NotePool] : n \in 0..MaxNotes }

InitNotes ==
    /\ CodecIdle
    /\ LoopIdle
    /\ BesideNoteIdle
    /\ notes \in NoteLists
    /\ nidx = 1
    /\ pendingHeader = ""
    /\ rendered = <<>>
    /\ npc = "loop"

\* one iteration of "for (const note of notes)"
NoteVisit ==
    /\ npc = "loop"
    /\ nidx <= Len(notes)
    /\ LET r == NoteStep(notes[nidx], pendingHeader, rendered)
       IN  /\ pendingHeader' = r.pendingHeader
           /\ rendered' = r.rendered
    /\ nidx' = nidx + 1
    /\ UNCHANGED <<notes, npc>>
    /\ UNCHANGED <<codecVars, loopVars, besideNoteVars>>

\* the end of the loop and the trailing header
NoteFinish ==
    /\ npc = "loop"
    /\ nidx > Len(notes)
    /\ rendered' = NoteTail(pendingHeader, rendered)
    /\ npc' = "done"
    /\ UNCHANGED <<notes, nidx, pendingHeader>>
    /\ UNCHANGED <<codecVars, loopVars, besideNoteVars>>

NextNotes == NoteVisit \/ NoteFinish

SpecNotes == InitNotes /\ [][NextNotes]_vars

\* the indexes of the notes with a body, in order
BodyNotes == SelectSeq([i \in 1..Len(notes) |-> i], LAMBDA i : notes[i].html # "")

IsHeaderNote(note) == note.html = "" /\ NoteHeading(note) # ""

\* the index of the header note that governs note i, or 0: the nearest
\* header note before it
GoverningHeader(i) ==
    IF \E j \in 1..(i - 1) : IsHeaderNote(notes[j])
    THEN CHOOSE j \in 1..(i - 1) :
             /\ IsHeaderNote(notes[j])
             /\ \A m \in (j + 1)..(i - 1) : ~IsHeaderNote(notes[m])
    ELSE 0

\* C24: when NotesPanel has built its list, the k-th rendered item with a
\* body is the k-th note with a body; a body note with a heading of its own
\* is rendered under that heading, and the body notes governed by the same
\* header note are all rendered as members of its group (or none is): the
\* header governs every body note after it, not only the first.
C24_HeaderGovernsGroup ==
    npc = "done" =>
        /\ Len(rendered) >= Len(BodyNotes)
        /\ \A k \in 1..Len(BodyNotes) :
              /\ rendered[k].html = notes[BodyNotes[k]].html
              /\ NoteHeading(notes[BodyNotes[k]]) # "" =>
                     rendered[k].heading = NoteHeading(notes[BodyNotes[k]])
        /\ \A k, m \in 1..Len(BodyNotes) :
              ( /\ GoverningHeader(BodyNotes[k]) # 0
                /\ GoverningHeader(BodyNotes[k]) = GoverningHeader(BodyNotes[m]) )
              => rendered[k].isHeader = rendered[m].isHeader

-----------------------------------------------------------------------------
(* Navigation of the single-title App: navigate and the hashchange         *)
(* listener.  hhash is window.location.hash as the getter returns it: the  *)
(* empty string for an empty fragment, otherwise "#" and the fragment.     *)

MaxPendingEvents == 2

\* the fragment of an address
FragmentOf(hash) == IF hash # <<>> /\ hash[1] = "#" THEN Tail(hash) ELSE hash

\* window.location.hash after the assignment window.location.hash = value
HashAfterSet(value) ==
    IF FragmentOf(value) = <<>> THEN <<>> ELSE <<"#">> \o FragmentOf(value)

\* addresses the app is opened at
StartHashes ==
    { <<>>,
      <<"#">> \o SectionSlash \o <<"1", "0", "6">>,
      <<"#">> \o SectionSlash \o <<"1", "0", "6">> \o Des1,
      <<"#">> \o SectionSlash \o <<"1", "0", "6">> \o <<"/">> \o DefPrefix \o <<"x">>,
      <<"#">> \o ChapterSlash \o <<"1">> }

InitNav ==
    /\ CodecIdle
    /\ LoopIdle
    /\ BesideNavIdle
    /\ hhash \in StartHashes
    /\ hview = SingleParseHash(hhash)
    /\ hevents = 0
    /\ hasked = NoTarget
    /\ hpc = "run"

\* navigate(newView): the assignment to window.location.hash, which fires
\* a hashchange event when the fragment changes, and setView(newView)
Navigate ==
    /\ hpc = "run"
    /\ hevents < MaxPendingEvents
    /\ \E v \in SingleTargets :
          /\ hhash' = HashAfterSet(SingleViewToHash(v))
          /\ hevents' = IF hhash' # hhash THEN hevents + 1 ELSE hevents
          /\ hview' = v
          /\ hasked' = v
    /\ UNCHANGED hpc
    /\ UNCHANGED <<codecVars, loopVars, besideNavVars>>

\* onHashChange: setView(parseHash(window.location.hash))
HashChange ==
    /\ hpc = "run"
    /\ hevents > 0
    /\ hview' = SingleParseHash(hhash)
    /\ hevents' = hevents - 1
    /\ UNCHANGED <<hhash, hasked, hpc>>
    /\ UNCHANGED <<codecVars, loopVars, besideNavVars>>

NextNav == Navigate \/ HashChange

SpecNav == InitNav /\ [][NextNav]_vars

\* C25: when navigate(v) has run and every hashchange event has been
\* handled, the view state of the App is v, paragraphAnchor included.
C25_NavigationKeepsTarget ==
    (hpc = "run" /\ hasked # NoTarget /\ hevents = 0) => hview = hasked

-----------------------------------------------------------------------------
(* Clicks on the statutory text of the single-title SectionView:           *)
(* handleContentClick, the definition popup and the fall-through to        *)
(* handleUslmClick.  The mouse coordinates of the popup are left out and   *)
(* the section sign of its label is spelled "sec.".                        *)

\* parseSec115eDefs(content): the loop of DefsStep over the first n blocks
RECURSIVE DefsLoop(_, _)
DefsLoop(c, n) ==
    IF n = 0 THEN [inE |-> FALSE, defs |-> <<>>, broke |-> FALSE]
    ELSE LET prev == DefsLoop(c, n - 1)
         IN  IF prev.broke THEN prev
             ELSE DefsStep(prev.inE, prev.defs, c[n], n - 1)

parseSec115eDefs(c) == DefsLoop(c, Len(c)).defs

\* the tag `<div class="def-popup-block" style="padding-left:${relPad}px">`,
\* one element of the markup
PopupBlockOpen(relPad) ==
    "<div class=\"def-popup-block\" style=\"padding-left:" \o ToString(relPad) \o "px\">"

DivClose == "</div>"

\* the for loop of getSec115eDefHtml from block i (1-based)
RECURSIVE Sec115eDefLoop(_, _, _)
Sec115eDefLoop(c, def, i) ==
    IF i > Len(c) THEN <<>>
    ELSE IF i > def.blockIndex + 1 /\ c[i].indent <= def.indent THEN <<>>
    ELSE <<PopupBlockOpen((c[i].indent - def.indent) * 24)>> \o c[i].html \o <<DivClose>>
         \o Sec115eDefLoop(c, def, i + 1)

getSec115eDefHtml(c, def) == Sec115eDefLoop(c, def, def.blockIndex + 1)

\* sec115eDefs.find(d => d.slug === slug): the index of the record, or 0
Find115e(list, slug) ==
    IF \E k \in 1..Len(list) : list[k].slug = slug
    THEN CHOOSE k \in 1..Len(list) :
           /\ list[k].slug = slug
           /\ \A j \in 1..(k - 1) : list[j].slug # slug
    ELSE 0

Sec115 == <<"1", "1", "5">>
Sec101 == <<"1", "0", "1">>

\* the popup handleContentClick opens for a click whose closest .def-term
\* element is span (Null when there is none), or Null
DefPopup(span, defs101, sec115eDefs, c) ==
    IF span = Null \/ span[1].slug = Null \/ span[1].slug[1] = <<>> THEN Null
    ELSE LET slug == span[1].slug[1]
         IN  IF span[1].source = Some(Source115e)
             THEN LET k == Find115e(sec115eDefs, slug)
                  IN  IF k = 0 THEN Null
                      ELSE Some([slug |-> slug, term |-> sec115eDefs[k].term,
                                 defHtml |-> getSec115eDefHtml(c, sec115eDefs[k]),
                                 label |-> "sec. 115(e)",
                                 navTarget |-> [type |-> "section", sectionNum |-> Sec115,
                                                paragraphAnchor |-> sec115eDefs[k].anchor]])
             ELSE LET k == FindSlug(defs101, slug)
                  IN  IF k = 0 \/ defs101[k].term = Null \/ defs101[k].term[1] = <<>>
                      THEN Null
                      ELSE Some([slug |-> slug, term |-> defs101[k].term[1],
                                 defHtml |-> getFullDefHtml(defs101, slug),
                                 label |-> "sec. 101",
                                 navTarget |-> [type |-> "section", sectionNum |-> Sec101,
                                                paragraphAnchor |-> DefPrefix \o slug]])

\* handleContentClick(e): the popup it sets (Null when it sets none), whether
\* preventDefault was called, the calls of onNavigate and of window.open
handleContentClick(e, defs101, sec115eDefs, c) ==
    LET pop == DefPopup(e.span, defs101, sec115eDefs, c)
    IN  IF pop # Null
        THEN [popup |-> pop, prevented |-> FALSE, navs |-> <<>>, opens |-> <<>>]
        ELSE LET r == handleUslmClick(e)
             IN  [popup |-> Null, prevented |-> r.prevented, navs |-> r.navs,
                  opens |-> r.opens]

-----------------------------------------------------------------------------
(* Inputs of the content-click specification                               *)

\* section 115 with subsection (e): two definitions, the first with a
\* subparagraph; then subsection (b)
Sec115Content ==
    << [type |-> "subsection", indent |-> 0, html |-> NumHtml(SubsectionE)],
       [type |-> "paragraph", indent |-> 2,
        html |-> <<NumOpen>> \o Des1 \o <<SpanClose>> \o <<" ">> \o QuotedTerm],
       [type |-> "subparagraph", indent |-> 3,
        html |-> <<NumOpen, "(", "A", ")", SpanClose>> \o BodyText],
       [type |-> "paragraph", indent |-> 2,
        html |-> <<NumOpen>> \o Des2 \o <<SpanClose, " ", LDQUO>> \o TermWork \o <<RDQUO>>] >>

Sec106Content ==
    << [type |-> "subsection", indent |-> 0, html |-> NumHtml(DesA)] >>

\* the .def-term element closest to the click target: none, a span without
\* attributes, and spans as the annotator writes them
ClickSpans ==
    { Null,
      Some([slug |-> Null, source |-> Null]),
      Some([slug |-> Some(Slugify(TermWork)), source |-> Some(Source101)]),
      Some([slug |-> Some(Slugify(TermWork)), source |-> Some(Source115e)]),
      Some([slug |-> Some(<<"m", "u", "s", "i", "c", "a", "l", "-", "w", "o", "r", "k">>),
            source |-> Some(Source115e)]),
      Some([slug |-> Some(Slugify(TermJointWork)), source |-> Some(Source101)]) }

ContentClicks ==
    { [inAnchor |-> e.inAnchor, href |-> e.href, span |-> sp] :
        e \in Clicks, sp \in ClickSpans }

\* defs101 of the SectionView: empty while the sections are not loaded
ClickDefs101 ==
    { <<>>,
      << Rec101(TermWork) >>,
      << Rec101(TermJointWork), SingleSec101Entry("indent2", BodyText), Rec101(TermWork) >> }

InitContentClick ==
    /\ CodecIdle
    /\ BesideContentClickIdle
    /\ \/ sectionNum = Sec115 /\ content = Sec115Content
       \/ sectionNum = <<"1", "0", "6">> /\ content = Sec106Content
    /\ idx = 0
    /\ stack = <<>>
    /\ pmap = <<>>
    /\ inE = FALSE
    /\ defs = <<>>
    /\ lpc = "idle"
    /\ kdefs101 \in ClickDefs101
    /\ kdefs115 = IF sectionNum = Sec115 THEN parseSec115eDefs(content) ELSE <<>>
    /\ popup = Null
    /\ click \in ContentClicks
    /\ prevented = FALSE
    /\ navs = <<>>
    /\ opens = <<>>
    /\ kpc = "click"

ContentClick ==
    /\ kpc = "click"
    /\ LET r == handleContentClick(click, kdefs101, kdefs115, content)
       IN  /\ popup' = r.popup
           /\ prevented' = r.prevented
           /\ navs' = r.navs
           /\ opens' = r.opens
    /\ kpc' = "handled"
    /\ UNCHANGED <<click, kdefs101, kdefs115>>
    /\ UNCHANGED <<codecVars, loopVars, besideContentClickVars>>

NextContentClick == ContentClick

SpecContentClick == InitContentClick /\ [][NextContentClick]_vars

\* C26: a click in the statutory text whose target is inside an anchor with
\* an href starting with '/us/' always suppresses the default navigation of
\* the browser, also when the target is inside a def-term span and the
\* definition popup is opened.
C26_NoClickEscapes ==
    (kpc = "handled" /\ "span" \in DOMAIN click /\ UsHrefOf(click) # <<>>) => prevented

-----------------------------------------------------------------------------
(* Text preservation and the popup of a span (specification SpecAnn)       *)

\* the output with the inserted tags removed: every span replaced by the
\* text it wraps
WithoutInsertedTags(pieces) ==
    RenderPieces([k \in 1..Len(pieces) |->
                     IF pieces[k].kind = "span"
                     THEN [kind |-> "text", text |-> pieces[k].text]
                     ELSE pieces[k]])

\* C27: removing from the output of the annotator the def-term opening tags
\* it inserted and their closing tags gives the input fragment, character
\* for character; an annotator built from no valid record returns its input.
C27_AnnotationPreservesText ==
    apc = "annotated" =>
        /\ WithoutInsertedTags(aout) = ahtml
        /\ aterms = <<>> => RenderPieces(aout) = ahtml

\* a term in lower case matched a capitalized word inside an anchor and the
\* span wraps the word as the input spells it
C27_Witness ==
    /\ apc = "annotated"
    /\ \E k \in SpanPieces(aout) :
          /\ aout[k].text = TermWorkCap
          /\ aout[k].slug = Slugify(TermWork)
    /\ \A k \in 1..Len(aterms) : aterms[k].term # TermWorkCap
    /\ \E k \in 1..Len(aout) : aout[k].kind = "tag"

-----------------------------------------------------------------------------
(* Anchors of the section 115(e) records (specification SpecDefs)          *)

\* C28: when parseSec115eDefs has returned, buildParaMetaMap of the same
\* content has an entry for the block of every record and the path of that
\* entry is the anchor of the record, so the element the popup navigates to
\* exists.
C28_AnchorsAgreeWithPaths ==
    lpc = "done" =>
        LET m == buildParaMetaMap(content, sectionNum)
        IN  \A k \in 1..Len(defs) :
               /\ defs[k].blockIndex \in DOMAIN m
               /\ m[defs[k].blockIndex].path = defs[k].anchor

-----------------------------------------------------------------------------
(* Paragraph URLs of the multi-title app (specification SpecMultiPara)     *)

\* the fragment of paraUrl: `#t${titleNum}/s${sectionNum}${meta.path}`
ParaUrlHash(titleNum, secNum, path) ==
    <<"#", "t">> \o titleNum \o <<"/", "s">> \o secNum \o path

\* title and section numbers made of digits followed by upper-case letters
UpperTitleNums == { t \in TitleNums : \A k \in 1..Len(t) : t[k] \in Digits \cup UpperLetters }

UpperSectionNums ==
    { n \in SectionNums : \A k \in 1..Len(n) : n[k] \in Digits \cup UpperLetters }

\* the id the scroll effect looks up for a paragraph anchor
ScrollTargetId(secNum, anchor) ==
    IF StartsWithAt(anchor, 1, DefPrefix)
    THEN <<"d", "e", "f", "-">> \o secNum \o <<"-">> \o Slice(anchor, 5)
    ELSE <<"p", "-">> \o secNum \o anchor

\* C29: in the multi-title app every path of buildParaMetaMap is non-empty
\* and begins with '(', the URL of the paragraph decodes to the section
\* target with that path as paragraphAnchor, and the scroll-target id
\* derived from the decoded anchor is the id of the entry.
C29_ParaUrlDecodesToParagraph ==
    \A i \in DOMAIN pmap :
        /\ pmap[i].path # <<>>
        /\ pmap[i].path[1] = "("
        /\ pmap[i].id = ParaId(sectionNum, pmap[i].path)
        /\ \A t \in UpperTitleNums, n \in UpperSectionNums :
              LET v == MultiParseHash(ParaUrlHash(t, n, pmap[i].path))
              IN  /\ v = [type |-> "section", titleNum |-> t, sectionNum |-> n,
                          paragraphAnchor |-> pmap[i].path]
                  /\ ScrollTargetId(n, v.paragraphAnchor) = ParaId(n, pmap[i].path)

-----------------------------------------------------------------------------
(* The popup of an annotated span (specification SpecAnn)                  *)

\* the .def-term element the annotator wrote for span piece p
SpanElement(p) == Some([slug |-> Some(p.slug), source |-> Some(p.source)])

\* the popup is built from record r of its source's list
BuiltFromRecord(pop, p, r) ==
    IF p.source = Source115e
    THEN /\ r \in 1..Len(a115)
         /\ ToLowerCase(a115[r].term) = ToLowerCase(p.text)
         /\ pop.term = a115[r].term
         /\ pop.defHtml = getSec115eDefHtml(content, a115[r])
    ELSE /\ r \in 1..Len(a101)
         /\ a101[r].term # Null
         /\ ToLowerCase(a101[r].term[1]) = ToLowerCase(p.text)
         /\ pop.term = a101[r].term[1]
         /\ pop.defHtml = FullDefLoop(a101, r, r)

\* C30: for every span the annotator produced for an occurrence of a term,
\* the click on the span opens a popup whose term is that term, compared
\* without case, and whose body is built from a record of that term.
C30_PopupShowsClickedTerm ==
    apc = "annotated" =>
        \A k \in SpanPieces(aout) :
            LET pop == DefPopup(SpanElement(aout[k]), a101, a115, content)
            IN  /\ pop # Null
                /\ ToLowerCase(pop[1].term) = ToLowerCase(aout[k].text)
                /\ \E r \in 1..MaxRecords : BuiltFromRecord(pop[1], aout[k], r)

====
